---- MODULE Spec2Model ----
(***************************************************************************)
(* Model of the wishlist backend's crowdfunding engine and gift state      *)
(* machine.  The persistent store (MongoDB collections) is the state; each *)
(* HTTP handler is a process whose steps are its store reads and writes,   *)
(* so that concurrent requests interleave exactly where the code awaits.   *)
(***************************************************************************)
EXTENDS Integers, Sequences, FiniteSets, Bags, TLC

VARIABLES
    gifts,          \* Gift collection: gift id -> document
    donations,      \* Donation collection: donation id -> document
    donors,         \* Donor collection: donor id -> document
    notifications,  \* Notification collection: a bag of documents
    reqs,           \* request slot -> the handler's position and locals
    nextId,         \* next ObjectId handed out to a Donor or Donation
    served,         \* number of requests that have arrived
    closedLog,      \* history: Donor ids whose contribute call sent GIFT_FUNDRAISING_CLOSED
    events,         \* Event collection: event id -> document
    now,            \* wall-clock time, in minutes
    sweep,          \* the scheduler's callback: its position and locals
    thankLog,       \* history: gift id -> number of thank-all calls that sent notes for it
    friends,        \* User.friends: user _id -> set of user _ids
    blocked,        \* User.blocked: user _id -> set of user _ids
    friendRequests, \* FriendRequest collection: request id -> document
    notificationSaveFails, \* whether Notification.save() rejects at present
    userViewers     \* User.viewers: user _id -> set of user _ids

vars == <<gifts, donations, donors, notifications, reqs, nextId, served, closedLog,
          events, now, sweep, thankLog, friends, blocked, friendRequests,
          notificationSaveFails, userViewers>>

\* what only the friend handlers touch
socialVars == <<friends, blocked, friendRequests>>

\* what the gift and donation handlers never touch
schedVars == <<events, now, sweep>>

\* what the gift state machine and the scheduler never touch
fundVars == <<donations, donors, nextId, closedLog>>

----------------------------------------------------------------------------
(* Bounds *)

MaxReq == 2          \* requests served in one behaviour
MaxTime == 2         \* minutes of wall-clock time, one scheduler run each

(* Values *)

Null == 0                        \* undefined / null / no response yet
NaN == -999                      \* Number() of a non-numeric body value
Req == {1, 2}                    \* request slots: the requests that can overlap
Registered == {1, 2, 3}          \* telegramIds that have a User document
Stranger == {4}                  \* authenticated telegramIds with no User document
Actors == Registered \cup Stranger
Prices == {Null, 100}            \* gift.price: unset, or set
Amounts == {-1, 50, 100}         \* numeric amounts sent in the body
NoGift == 9                      \* a well-formed giftId of no Gift document

\* req.body.amount: absent, a non-numeric string, or a number
AmountInputs ==
    {[kind |-> "missing", val |-> 0], [kind |-> "text", val |-> 0]}
        \cup {[kind |-> "num", val |-> a] : a \in Amounts}

\* req.body of POST /donation: every amount for the gift, and a valid
\* amount for a giftId that is absent or names no document
ContributeInputs ==
    {[giftId |-> 1, amount |-> a] : a \in AmountInputs}
        \cup {[giftId |-> g, amount |-> [kind |-> "num", val |-> 50]] : g \in {NoGift, Null}}

\* ObjectId of the User document of a telegramId (a different key space)
UserOid(t) == 10 + t

\* User.findOne({ telegramId: t }) : the document's _id, or Null
FindUser(t) == IF t \in Registered THEN UserOid(t) ELSE Null

\* the _ids of the User documents
Users == {UserOid(t) : t \in Registered}

\* Number(amount)
NumberOf(a) == IF a.kind = "num" THEN a.val ELSE NaN

IsNaN(x) == x = NaN

----------------------------------------------------------------------------
(* Helpers on the store *)

RECURSIVE SumAmounts(_, _)
\* allDonors.reduce((sum, d) => sum + d.amount, 0) over the documents found
SumAmounts(ds, ids) ==
    IF ids = {} THEN 0
    ELSE LET d == CHOOSE x \in ids : TRUE
         IN ds[d].amount + SumAmounts(ds, ids \ {d})

SeqToSet(s) == {s[i] : i \in 1 .. Len(s)}

\* the service without its checks: a document whatever the arguments and the store
CreateNotificationAnyway(ns, recipientId, senderId, notificationType, message, entityId, entityModel) ==
    ns (+) SetToBag({[recipient |-> recipientId, sender |-> senderId,
                      type |-> notificationType, message |-> message,
                      entityId |-> entityId, entityModel |-> entityModel,
                      isRead |-> FALSE]})

\* lines 22-43: the missing-parameter check and the save are inside the try;
\* the catch logs and the call returns, with no document when either threw
CreateNotification(ns, recipientId, senderId, notificationType, message, entityId, entityModel) ==
    IF recipientId = Null \/ notificationType = "" \/ message = ""
          \/ entityId = Null \/ entityModel = ""
          \/ notificationSaveFails
    THEN ns
    ELSE ns (+) SetToBag({[recipient |-> recipientId, sender |-> senderId,
                           type |-> notificationType, message |-> message,
                           entityId |-> entityId, entityModel |-> entityModel,
                           isRead |-> FALSE]})

RECURSIVE NotifyAll(_, _, _, _, _, _, _)
\* one createNotification per recipient of the set rs
NotifyAll(ns, rs, senderId, notificationType, message, entityId, entityModel) ==
    IF rs = {} THEN ns
    ELSE LET u == CHOOSE x \in rs : TRUE
         IN NotifyAll(CreateNotification(ns, u, senderId, notificationType,
                                         message, entityId, entityModel),
                      rs \ {u}, senderId, notificationType, message, entityId,
                      entityModel)

\* the notifications created between the collections `before` and `after`
Created(before, after) == BagCardinality(after) - BagCardinality(before)

----------------------------------------------------------------------------
(* Request slots *)

\* what a handler has sent before it answers: no message, no document
NoBody == [message |-> "", docs |-> {}, gifts |-> {}, detail |-> {}]

\* a well-formed notificationId of no Notification document
NoNote ==
    [recipient |-> Null, sender |-> Null, type |-> "", message |-> "",
     entityId |-> Null, entityModel |-> "", isRead |-> FALSE]

\* op: the handler; pc: its position; actor, gift, amount: its inputs;
\* snap: the Gift document it read; donor: savedDonor._id; don, dsnap: the
\* Donation it found, its _id and the document as read; saved: the _id of
\* the Donation it created; todo: the gifts it still has to thank for;
\* resp: the HTTP status it answered; err: the body is { message } alone.
\* History: linked: it wrote gift.donation; sent: the notifications it
\* created; seen: the requests in flight when it arrived
IdleReq ==
    [op |-> "none", pc |-> "idle", actor |-> Null, gift |-> Null,
     amount |-> [kind |-> "missing", val |-> 0], snap |-> <<>>,
     donor |-> Null, don |-> Null, dsnap |-> <<>>, saved |-> Null,
     todo |-> <<>>, linked |-> FALSE, sent |-> 0, seen |-> {}, resp |-> Null,
     err |-> FALSE, target |-> Null, request |-> Null, action |-> "",
     note |-> NoNote, listed |-> {}, body |-> NoBody]

\* the callbacks of the scheduler that can be running at once
Sweeper == {1, 2}

\* the scheduler's callback between two runs. History: skipped: the events
\* its reveal pass has passed over for having no gifts
IdleSweep == [pc |-> "idle", now |-> 0, starting |-> <<>>, events |-> <<>>, gifts |-> <<>>,
              ended |-> <<>>, found |-> <<>>, skipped |-> {}]

InFlight(r) == reqs[r].pc \notin {"idle", "done", "aborted"}

\* a request arrives in the first free slot
CanStart(r) ==
    /\ served < MaxReq
    /\ ~InFlight(r)
    /\ \A q \in Req : q < r => InFlight(q)

\* res.status(code).json(...) ends the handler
Respond(r, code) ==
    [reqs EXCEPT ![r].pc = "done", ![r].resp = code, ![r].err = code >= 400]

\* catch (error) { res.json({ message: error.message }) } : status 200
RespondMessage(r) == [reqs EXCEPT ![r].pc = "done", ![r].resp = 200, ![r].err = TRUE]

\* the catch block of router.post("/donation"): responds 500, then the call
\* of the undefined console.kig rejects the handler's promise; depending on
\* the runtime the rejection is reported or it terminates the process, which
\* abandons every other request in flight
Catch(r, crash) ==
    [q \in Req |->
        IF q = r THEN [reqs[q] EXCEPT !.pc = "done", !.resp = 500, !.err = TRUE]
        ELSE IF crash /\ InFlight(q) THEN [reqs[q] EXCEPT !.pc = "aborted"]
        ELSE reqs[q]]

\* a request arrives: the slot's inputs and the requests it overlaps
Arrive(r, op, actor, g, amount) ==
    [IdleReq EXCEPT !.op = op, !.actor = actor, !.gift = g, !.amount = amount,
                    !.seen = {q \in Req : InFlight(q)}]

\* the slots after the handler of slot r ran up to its first await and
\* is left as `me`; the request that held the slot before is forgotten
Started(r, me) ==
    [q \in Req |-> IF q = r THEN me ELSE [reqs[q] EXCEPT !.seen = @ \ {r}]]

\* Model.findById(id): the document, or <<>> for null
FindById(coll, id) == IF id \in DOMAIN coll THEN coll[id] ELSE <<>>

\* document.save() of a new document under a fresh ObjectId
Insert(coll, id, doc) == coll @@ (id :> doc)

\* deleteMany({ _id: { $in: ids } }) / findByIdAndDelete
Delete(coll, ids) == [x \in DOMAIN coll \ ids |-> coll[x]]

----------------------------------------------------------------------------
(* POST /gifts/donation : contribute *)

\* the evaluation of `currentDonation.donors` for the Donation just saved
\* with the donors `savedDonors`: no binding of that name exists in the
\* module, so the evaluation throws a ReferenceError
CurrentDonationDonorsIntended(savedDonors) == [threw |-> FALSE, ids |-> savedDonors]

CurrentDonationDonors(savedDonors) == [threw |-> TRUE, ids |-> {}]

\* lines 1411-1425: body validation, Gift.findById, Number(amount)
ContributeBegin(r, actor, g, amount) ==
    /\ CanStart(r)
    /\ LET me == Arrive(r, "contribute", actor, g, amount)
           gift == FindById(gifts, g)
           donationAmount == NumberOf(amount)
       IN reqs' = Started(r,
            IF g = Null \/ amount.kind = "missing"
                THEN [me EXCEPT !.pc = "done", !.resp = 400, !.err = TRUE]
            ELSE IF gift = <<>>
                THEN [me EXCEPT !.pc = "done", !.resp = 404, !.err = TRUE]
            ELSE IF IsNaN(donationAmount) \/ donationAmount < 0
                THEN [me EXCEPT !.pc = "done", !.resp = 400, !.err = TRUE]
            ELSE [me EXCEPT !.pc = "saveDonor", !.snap = gift])
    /\ served' = served + 1
    /\ UNCHANGED <<gifts, donations, donors, notifications, nextId, closedLog, schedVars, thankLog, socialVars, notificationSaveFails, userViewers>>

\* lines 1428-1435: User.findOne, new Donor({ user: user._id, ... }).save()
ContributeSaveDonor(r) ==
    /\ reqs[r].op = "contribute" /\ reqs[r].pc = "saveDonor"
    /\ LET user == FindUser(reqs[r].actor)
       IN IF user = Null
          THEN \* user._id throws a TypeError
               /\ \E crash \in BOOLEAN : reqs' = Catch(r, crash)
               /\ UNCHANGED <<donors, nextId>>
          ELSE /\ donors' = Insert(donors, nextId,
                        [user |-> user, amount |-> NumberOf(reqs[r].amount)])
               /\ nextId' = nextId + 1
               /\ reqs' = [reqs EXCEPT ![r].donor = nextId,
                              ![r].pc = IF reqs[r].snap.donation # Null
                                        THEN "findDonation" ELSE "newDonation"]
    /\ UNCHANGED <<gifts, donations, notifications, closedLog, served, schedVars, thankLog, socialVars, notificationSaveFails, userViewers>>

\* line 1439: Donation.findById(gift.donation)
ContributeFindDonation(r) ==
    /\ reqs[r].op = "contribute" /\ reqs[r].pc = "findDonation"
    /\ LET donation == FindById(donations, reqs[r].snap.donation)
       IN reqs' = [reqs EXCEPT ![r] =
            IF donation = <<>>
            THEN [@ EXCEPT !.pc = "relink"]
            ELSE [@ EXCEPT !.pc = "push", !.don = reqs[r].snap.donation,
                           !.dsnap = donation]]
    /\ UNCHANGED <<gifts, donations, donors, notifications, nextId, closedLog, served, schedVars, thankLog, socialVars, notificationSaveFails, userViewers>>

\* lines 1442-1446: the reference dangles, a new Donation is saved
ContributeRelink(r) ==
    /\ reqs[r].op = "contribute" /\ reqs[r].pc = "relink"
    /\ donations' = Insert(donations, nextId,
            [author |-> FindUser(reqs[r].actor), donors |-> <<reqs[r].donor>>,
             isAnonymous |-> FALSE])
    /\ nextId' = nextId + 1
    /\ reqs' = [reqs EXCEPT ![r].saved = nextId, ![r].pc = "relinkGift"]
    /\ UNCHANGED <<gifts, donors, notifications, closedLog, served, schedVars, thankLog, socialVars, notificationSaveFails, userViewers>>

\* lines 1447-1449: gift.donation = savedDonation._id; gift.save()
ContributeRelinkGift(r) ==
    /\ reqs[r].op = "contribute" /\ reqs[r].pc = "relinkGift"
    /\ gifts' = [gifts EXCEPT ![reqs[r].gift].donation = reqs[r].saved]
    /\ reqs' = [Respond(r, 200) EXCEPT ![r].linked = TRUE]
    /\ UNCHANGED <<donations, donors, notifications, nextId, closedLog, served, schedVars, thankLog, socialVars, notificationSaveFails, userViewers>>

\* lines 1451-1454: donation.donors.push(savedDonor._id); donation.save().
\* The save sends { $push: { donors } } for the document's _id, so pushes of
\* overlapping requests all land; when the document is gone the update
\* matches nothing and save() rejects
ContributePush(r) ==
    /\ reqs[r].op = "contribute" /\ reqs[r].pc = "push"
    /\ IF reqs[r].don \in DOMAIN donations
       THEN /\ donations' = [donations EXCEPT ![reqs[r].don].donors =
                                Append(@, reqs[r].donor)]
            /\ reqs' = Respond(r, 200)
       ELSE /\ UNCHANGED donations
            /\ \E crash \in BOOLEAN : reqs' = Catch(r, crash)
    /\ UNCHANGED <<gifts, donors, notifications, nextId, closedLog, served, schedVars, thankLog, socialVars, notificationSaveFails, userViewers>>

\* lines 1457-1462: no donation on the gift, a new Donation is saved
ContributeNewDonation(r, isAnonymous) ==
    /\ reqs[r].op = "contribute" /\ reqs[r].pc = "newDonation"
    /\ donations' = Insert(donations, nextId,
            [author |-> FindUser(reqs[r].actor), donors |-> <<reqs[r].donor>>,
             isAnonymous |-> isAnonymous])
    /\ nextId' = nextId + 1
    /\ reqs' = [reqs EXCEPT ![r].saved = nextId, ![r].pc = "linkGift"]
    /\ UNCHANGED <<gifts, donors, notifications, closedLog, served, schedVars, thankLog, socialVars, notificationSaveFails, userViewers>>

\* lines 1463-1464: gift.donation = savedDonation._id; gift.save()
ContributeLinkGift(r) ==
    /\ reqs[r].op = "contribute" /\ reqs[r].pc = "linkGift"
    /\ gifts' = [gifts EXCEPT ![reqs[r].gift].donation = reqs[r].saved]
    /\ reqs' = [reqs EXCEPT ![r].pc = "opened", ![r].linked = TRUE]
    /\ UNCHANGED <<donations, donors, notifications, nextId, closedLog, served, schedVars, thankLog, socialVars, notificationSaveFails, userViewers>>

\* lines 1466-1478: GIFT_FUNDRAISING_OPENED to the gift's owner
ContributeOpened(r) ==
    /\ reqs[r].op = "contribute" /\ reqs[r].pc = "opened"
    /\ LET user == FindUser(reqs[r].actor)
           recipient == FindUser(reqs[r].snap.owner)
       IN notifications' =
            IF user # Null /\ recipient # Null
            THEN CreateNotification(notifications, recipient, user,
                    "GIFT_FUNDRAISING_OPENED", "opened a fundraiser",
                    reqs[r].gift, "Gift")
            ELSE notifications
    /\ reqs' = [reqs EXCEPT ![r].pc = "threshold",
                            ![r].sent = @ + Created(notifications, notifications')]
    /\ UNCHANGED <<gifts, donations, donors, nextId, closedLog, served, schedVars, thankLog, socialVars, notificationSaveFails, userViewers>>

\* lines 1480-1531: the threshold check of the branch that opened the
\* collection, and its GIFT_FUNDRAISING_CLOSED fan-out
ContributeThreshold(r) ==
    /\ reqs[r].op = "contribute" /\ reqs[r].pc = "threshold"
    /\ LET price == reqs[r].snap.price
           donationAmount == NumberOf(reqs[r].amount)
           cur == CurrentDonationDonors({reqs[r].donor})
           \* Donor.find({ _id: { $in: ... } })
           allDonors == cur.ids \cap DOMAIN donors
           totalAmount == SumAmounts(donors, allDonors)
           previousAmount == totalAmount - donationAmount
           ownerUser == FindUser(reqs[r].snap.owner)
           recipientsSet == (IF ownerUser # Null THEN {ownerUser} ELSE {})
                                \cup {donors[d].user : d \in allDonors}
       IN IF price # Null /\ price > 0
          THEN IF cur.threw
               THEN /\ \E crash \in BOOLEAN : reqs' = Catch(r, crash)
                    /\ UNCHANGED <<notifications, closedLog>>
               ELSE IF previousAmount < price /\ totalAmount >= price
               THEN /\ notifications' = NotifyAll(notifications, recipientsSet,
                              FindUser(reqs[r].actor), "GIFT_FUNDRAISING_CLOSED",
                              "fundraiser closed", reqs[r].gift, "Gift")
                    /\ closedLog' = closedLog \cup {reqs[r].donor}
                    /\ reqs' = [Respond(r, 200) EXCEPT
                            ![r].sent = @ + Created(notifications, notifications')]
               ELSE /\ reqs' = Respond(r, 200)
                    /\ UNCHANGED <<notifications, closedLog>>
          ELSE /\ reqs' = Respond(r, 200)
               /\ UNCHANGED <<notifications, closedLog>>
    /\ UNCHANGED <<gifts, donations, donors, nextId, served, schedVars, thankLog, socialVars, notificationSaveFails, userViewers>>

----------------------------------------------------------------------------
(* DELETE /gifts/donation/:giftId : withdraw *)

\* lines 1566-1572: Gift.findById
WithdrawBegin(r, actor, g) ==
    /\ CanStart(r)
    /\ LET me == Arrive(r, "withdraw", actor, g, IdleReq.amount)
           gift == FindById(gifts, g)
       IN reqs' = Started(r,
            IF gift = <<>> THEN [me EXCEPT !.pc = "done", !.resp = 404, !.err = TRUE]
            ELSE [me EXCEPT !.pc = "findDonation", !.snap = gift])
    /\ served' = served + 1
    /\ UNCHANGED <<gifts, donations, donors, notifications, nextId, closedLog, schedVars, thankLog, socialVars, notificationSaveFails, userViewers>>

\* line 1582: the actor is neither the collection's author nor the gift's owner
WithdrawForbiddenEither(author, user, currentUserId, owner) ==
    author # user \/ currentUserId # owner

WithdrawForbidden(author, user, currentUserId, owner) ==
    author # user /\ currentUserId # owner

\* lines 1574-1584: User.findOne, Donation.findById, the permission check
WithdrawFindDonation(r) ==
    /\ reqs[r].op = "withdraw" /\ reqs[r].pc = "findDonation"
    /\ LET user == FindUser(reqs[r].actor)
           donation == FindById(donations, reqs[r].snap.donation)
       IN reqs' =
            IF donation = <<>> THEN Respond(r, 404)
            ELSE IF user = Null                \* user._id throws
                THEN [Respond(r, 500) EXCEPT ![r].dsnap = donation]
            ELSE IF WithdrawForbidden(donation.author, user, reqs[r].actor,
                                      reqs[r].snap.owner)
                THEN [Respond(r, 403) EXCEPT ![r].dsnap = donation]
            ELSE [reqs EXCEPT ![r].don = reqs[r].snap.donation,
                              ![r].dsnap = donation,
                              ![r].pc = IF Len(donation.donors) > 0
                                        THEN "deleteDonors" ELSE "deleteDonation"]
    /\ UNCHANGED <<gifts, donations, donors, notifications, nextId, closedLog, served, schedVars, thankLog, socialVars, notificationSaveFails, userViewers>>

\* lines 1586-1588: Donor.deleteMany({ _id: { $in: donation.donors } })
WithdrawDeleteDonors(r) ==
    /\ reqs[r].op = "withdraw" /\ reqs[r].pc = "deleteDonors"
    /\ donors' = Delete(donors, SeqToSet(reqs[r].dsnap.donors))
    /\ reqs' = [reqs EXCEPT ![r].pc = "deleteDonation"]
    /\ UNCHANGED <<gifts, donations, notifications, nextId, closedLog, served, schedVars, thankLog, socialVars, notificationSaveFails, userViewers>>

\* line 1589: Donation.findByIdAndDelete(donation._id)
WithdrawDeleteDonation(r) ==
    /\ reqs[r].op = "withdraw" /\ reqs[r].pc = "deleteDonation"
    /\ donations' = Delete(donations, {reqs[r].don})
    /\ reqs' = [reqs EXCEPT ![r].pc = "clearGift"]
    /\ UNCHANGED <<gifts, donors, notifications, nextId, closedLog, served, schedVars, thankLog, socialVars, notificationSaveFails, userViewers>>

\* lines 1590-1593: gift.donation = null; gift.save()
WithdrawClearGift(r) ==
    /\ reqs[r].op = "withdraw" /\ reqs[r].pc = "clearGift"
    /\ gifts' = [gifts EXCEPT ![reqs[r].gift].donation = Null]
    /\ reqs' = Respond(r, 200)
    /\ UNCHANGED <<donations, donors, notifications, nextId, closedLog, served, schedVars, thankLog, socialVars, notificationSaveFails, userViewers>>

----------------------------------------------------------------------------
(* The crowdfunding engine: one gift of user 1, no collection yet *)

NewGift(owner, price) ==
    [owner |-> owner, price |-> price, isReserved |-> FALSE, reservedBy |-> Null,
     isGiven |-> FALSE, isThanked |-> FALSE, donation |-> Null, viewers |-> {}]

\* the store with no collection, and the store after user 2 opened one
\* with a contribution of 60, which sent GIFT_FUNDRAISING_OPENED to user 1
Init ==
    /\ notificationSaveFails = FALSE
    /\ userViewers = [u \in Users |-> {}]
    /\ \E price \in Prices :
        \/ /\ gifts = (1 :> NewGift(1, price))
           /\ donations = <<>>
           /\ donors = <<>>
           /\ notifications = EmptyBag
           /\ nextId = 21
        \/ /\ gifts = (1 :> [NewGift(1, price) EXCEPT !.donation = 22])
           /\ donations = (22 :> [author |-> UserOid(2), donors |-> <<21>>,
                                  isAnonymous |-> FALSE])
           /\ donors = (21 :> [user |-> UserOid(2), amount |-> 60])
           /\ notifications = CreateNotification(EmptyBag, UserOid(1), UserOid(2),
                    "GIFT_FUNDRAISING_OPENED", "opened a fundraiser", 1, "Gift")
           /\ nextId = 23
    /\ reqs = [r \in Req |-> IdleReq]
    /\ served = 0
    /\ closedLog = {}
    /\ events = <<>>
    /\ now = 0
    /\ sweep = [w \in Sweeper |-> IdleSweep]
    /\ thankLog = [g \in DOMAIN gifts |-> 0]
    /\ friends = [u \in Users |-> {}]
    /\ blocked = [u \in Users |-> {}]
    /\ friendRequests = <<>>

Next ==
    \/ \E r \in Req, actor \in Actors, body \in ContributeInputs :
            ContributeBegin(r, actor, body.giftId, body.amount)
    \/ \E r \in Req : ContributeSaveDonor(r)
    \/ \E r \in Req : ContributeFindDonation(r)
    \/ \E r \in Req : ContributeRelink(r)
    \/ \E r \in Req : ContributeRelinkGift(r)
    \/ \E r \in Req : ContributePush(r)
    \/ \E r \in Req, isAnonymous \in {FALSE} : ContributeNewDonation(r, isAnonymous)
    \/ \E r \in Req : ContributeLinkGift(r)
    \/ \E r \in Req : ContributeOpened(r)
    \/ \E r \in Req : ContributeThreshold(r)
    \/ \E r \in Req, actor \in Actors, g \in {1, NoGift} : WithdrawBegin(r, actor, g)
    \/ \E r \in Req : WithdrawFindDonation(r)
    \/ \E r \in Req : WithdrawDeleteDonors(r)
    \/ \E r \in Req : WithdrawDeleteDonation(r)
    \/ \E r \in Req : WithdrawClearGift(r)

Spec == Init /\ [][Next]_vars

----------------------------------------------------------------------------
(* The gift state machine *)

\* gift.save(): the update sets the paths the handler changed on the
\* document it read, and leaves the other paths as they are in the store
GiftSave(g, snap, doc) ==
    [gifts EXCEPT ![g] =
        [f \in DOMAIN gifts[g] |-> IF doc[f] # snap[f] THEN doc[f] ELSE gifts[g][f]]]

\* the toggle with the reserver left in place when the gift is released
ReserveToggleKeepsReserver(gift, telegramId) ==
    IF gift.isReserved = FALSE
    THEN [gift EXCEPT !.reservedBy = telegramId, !.isReserved = TRUE]
    ELSE [gift EXCEPT !.isReserved = FALSE]

\* the toggle replaced by "reserve for the caller"
ReserveToggleTakesOver(gift, telegramId) ==
    [gift EXCEPT !.reservedBy = telegramId, !.isReserved = TRUE]

\* lines 1088-1108 of PATCH /gifts/:giftId, on the document read
ReserveToggle(gift, telegramId) ==
    IF gift.isReserved = FALSE
    THEN [gift EXCEPT !.reservedBy = telegramId, !.isReserved = TRUE]
    ELSE [gift EXCEPT !.reservedBy = Null, !.isReserved = FALSE]

\* line 1085: gift.owner == req.user.telegramId
ReserveForbidden(gift, telegramId) == gift.owner = telegramId

\* lines 1079-1087: Gift.findById, the owner check
ReserveBegin(r, actor, g) ==
    /\ CanStart(r)
    /\ LET me == Arrive(r, "reserve", actor, g, IdleReq.amount)
           gift == FindById(gifts, g)
       IN reqs' = Started(r,
            IF gift = <<>> THEN [me EXCEPT !.pc = "done", !.resp = 404, !.err = TRUE]
            ELSE IF ReserveForbidden(gift, actor)
                THEN [me EXCEPT !.pc = "done", !.resp = 403, !.err = TRUE, !.snap = gift]
            ELSE [me EXCEPT !.pc = "save", !.snap = gift])
    /\ served' = served + 1
    /\ UNCHANGED <<gifts, notifications, fundVars, schedVars, thankLog, socialVars, notificationSaveFails, userViewers>>

\* lines 1088-1110: GIFT_RESERVED to the owner when reserving, gift.save()
ReserveSave(r) ==
    /\ reqs[r].op = "reserve" /\ reqs[r].pc = "save"
    /\ LET snap == reqs[r].snap
           sender == FindUser(reqs[r].actor)
           recipient == FindUser(snap.owner)
       IN /\ notifications' =
                IF snap.isReserved = FALSE /\ sender # Null /\ recipient # Null
                THEN CreateNotification(notifications, recipient, sender,
                        "GIFT_RESERVED", "reserved", reqs[r].gift, "Gift")
                ELSE notifications
          /\ gifts' = GiftSave(reqs[r].gift, snap, ReserveToggle(snap, reqs[r].actor))
    /\ reqs' = [Respond(r, 200) EXCEPT
                    ![r].sent = Created(notifications, notifications')]
    /\ UNCHANGED <<served, fundVars, schedVars, thankLog, socialVars, notificationSaveFails, userViewers>>

\* the owner check made against the reserver
MarkGivenForbiddenForReserver(gift, telegramId) == gift.reservedBy # telegramId

\* line 1119: gift.owner !== req.user.telegramId
MarkGivenForbidden(gift, telegramId) == gift.owner # telegramId

\* lines 1118-1121 of PATCH /gifts/mark-given/:giftId
MarkGivenBegin(r, actor, g) ==
    /\ CanStart(r)
    /\ LET me == Arrive(r, "markGiven", actor, g, IdleReq.amount)
           gift == FindById(gifts, g)
       IN reqs' = Started(r,
            IF gift = <<>>          \* gift.owner of null throws
                THEN [me EXCEPT !.pc = "done", !.resp = 200, !.err = TRUE]
            ELSE IF MarkGivenForbidden(gift, actor)
                THEN [me EXCEPT !.pc = "done", !.resp = 403, !.err = TRUE, !.snap = gift]
            ELSE [me EXCEPT !.pc = "save", !.snap = gift])
    /\ served' = served + 1
    /\ UNCHANGED <<gifts, notifications, fundVars, schedVars, thankLog, socialVars, notificationSaveFails, userViewers>>

\* lines 1122-1142: the toggle, GIFT_GIVEN from the reserver, gift.save()
MarkGivenSave(r) ==
    /\ reqs[r].op = "markGiven" /\ reqs[r].pc = "save"
    /\ LET snap == reqs[r].snap
           doc == [snap EXCEPT !.isGiven = ~snap.isGiven]
           sender == FindUser(snap.reservedBy)
           recipient == FindUser(snap.owner)
       IN /\ notifications' =
                IF doc.isGiven /\ sender # Null /\ recipient # Null
                THEN CreateNotification(notifications, recipient, sender,
                        "GIFT_GIVEN", "gave you", reqs[r].gift, "Gift")
                ELSE notifications
          /\ gifts' = GiftSave(reqs[r].gift, snap, doc)
    /\ reqs' = [Respond(r, 200) EXCEPT
                    ![r].sent = Created(notifications, notifications')]
    /\ UNCHANGED <<served, fundVars, schedVars, thankLog, socialVars, notificationSaveFails, userViewers>>

RECURSIVE Sorted(_)
\* the elements of a finite set of numbers, ascending (the _id order of find)
Sorted(S) ==
    IF S = {} THEN <<>>
    ELSE LET m == CHOOSE x \in S : \A y \in S : x <= y
         IN <<m>> \o Sorted(S \ {m})

\* gift.donation after populate: the users of the Donor documents of the
\* Donation, or no collection when the gift has none or the reference dangles
Populated(g) ==
    IF gifts[g].donation \in DOMAIN donations
    THEN LET found == SelectSeq(donations[gifts[g].donation].donors,
                                LAMBDA d : d \in DOMAIN donors)
         IN [collected |-> TRUE,
             users |-> [i \in 1 .. Len(found) |-> donors[found[i]].user]]
    ELSE [collected |-> FALSE, users |-> <<>>]

\* the loop without the uniqueUsers.has test
UniqueUsersKeepsAll(us) == us

RECURSIVE UniqueUsers(_)
\* lines 148-155: the users of the donors, each once, in order of first donor
UniqueUsers(us) ==
    IF us = <<>> THEN <<>>
    ELSE LET front == UniqueUsers(SubSeq(us, 1, Len(us) - 1))
             last == us[Len(us)]
         IN IF last \in SeqToSet(front) THEN front ELSE Append(front, last)

RECURSIVE NotifyEach(_, _, _, _, _, _, _)
\* lines 157-168: one createNotification per user of the sequence us
NotifyEach(ns, us, senderId, notificationType, message, entityId, entityModel) ==
    IF us = <<>> THEN ns
    ELSE NotifyEach(CreateNotification(ns, Head(us), senderId, notificationType,
                                       message, entityId, entityModel),
                    Tail(us), senderId, notificationType, message, entityId,
                    entityModel)

\* the save without the assignment
MarkThankedForgotten(gift) == gift

\* line 188: gift.isThanked = true
MarkThanked(gift) == [gift EXCEPT !.isThanked = TRUE]

\* lines 122-143 of POST /thanks/gifts: the sender, the gifts given and not
\* thanked for, with their collections
ThankAllBegin(r, actor) ==
    /\ CanStart(r)
    /\ LET me == Arrive(r, "thankAll", actor, Null, IdleReq.amount)
           sender == FindUser(actor)
           found == {g \in DOMAIN gifts :
                        gifts[g].owner = actor /\ gifts[g].isGiven
                            /\ ~gifts[g].isThanked}
           list == Sorted(found)
       IN reqs' = Started(r,
            IF sender = Null THEN [me EXCEPT !.pc = "done", !.resp = 404, !.err = TRUE]
            ELSE IF found = {} THEN [me EXCEPT !.pc = "done", !.resp = 200]
            ELSE [me EXCEPT !.pc = "thank",
                    !.todo = [i \in 1 .. Len(list) |->
                                [gift |-> list[i], doc |-> gifts[list[i]],
                                 donation |-> Populated(list[i])]]])
    /\ served' = served + 1
    /\ UNCHANGED <<gifts, notifications, fundVars, schedVars, thankLog, socialVars, notificationSaveFails, userViewers>>

\* lines 145-190: one pass of the loop: GIFT_THANK_YOU_NOTE to the
\* contributors or to the reserver, gift.isThanked = true, gift.save()
ThankAllGift(r) ==
    /\ reqs[r].op = "thankAll" /\ reqs[r].pc = "thank"
    /\ LET item == Head(reqs[r].todo)
           sender == FindUser(reqs[r].actor)
           recipient == FindUser(item.doc.reservedBy)
       IN /\ notifications' =
                IF item.donation.collected
                THEN NotifyEach(notifications, UniqueUsers(item.donation.users),
                        sender, "GIFT_THANK_YOU_NOTE", "thanked you", item.gift,
                        "Gift")
                ELSE IF item.doc.reservedBy # Null /\ recipient # Null
                THEN CreateNotification(notifications, recipient, sender,
                        "GIFT_THANK_YOU_NOTE", "thanked you", item.gift, "Gift")
                ELSE notifications
          /\ gifts' = GiftSave(item.gift, item.doc, MarkThanked(item.doc))
          /\ thankLog' = IF Created(notifications, notifications') > 0
                         THEN [thankLog EXCEPT ![item.gift] = @ + 1]
                         ELSE thankLog
    /\ reqs' = [reqs EXCEPT
            ![r].todo = Tail(@),
            ![r].sent = @ + Created(notifications, notifications'),
            ![r].pc = IF Len(reqs[r].todo) = 1 THEN "done" ELSE "thank",
            ![r].resp = IF Len(reqs[r].todo) = 1 THEN 200 ELSE Null]
    /\ UNCHANGED <<served, fundVars, schedVars, socialVars, notificationSaveFails, userViewers>>

----------------------------------------------------------------------------
(* The scheduler: one callback per minute, three passes over the events *)

\* line 19: twenty-four hours, in minutes
Day == 1440

\* lines 22-27: startDate within the minute that ends a day after now, both
\* ends of the range included; an event without the date matches no range
StartingSoon(e, t) ==
    /\ events[e].startDate # Null
    /\ events[e].startDate >= (t + Day) - 1
    /\ events[e].startDate <= (t + Day) + 0

\* lines 30-35: endDate within a minute of now
JustEnded(e, t) ==
    /\ events[e].endDate # Null
    /\ events[e].endDate >= t - 1 /\ events[e].endDate <= t + 1

\* the filter without its guard on giftersRevealedAt
Ended24HoursAgoUnguarded(e, t) ==
    /\ events[e].endDate # Null
    /\ events[e].endDate >= (t - Day) - 1 /\ events[e].endDate <= (t - Day) + 1
    /\ events[e].isAnonymous = TRUE

\* lines 129-138: anonymous, endDate within a minute of a day before now,
\* gifters not revealed yet
Ended24HoursAgo(e, t) ==
    /\ events[e].endDate # Null
    /\ events[e].endDate >= (t - Day) - 1 /\ events[e].endDate <= (t - Day) + 1
    /\ events[e].isAnonymous = TRUE
    /\ events[e].giftersRevealedAt = Null

\* where the callback goes once the events starting soon are done
AfterStarting(eventsJustEnded) == IF eventsJustEnded = <<>> THEN "find" ELSE "event"

\* where the callback goes once an event that just ended is done
AfterEvent(eventsJustEnded) == IF Len(eventsJustEnded) = 1 THEN "find" ELSE "event"

\* lines 14-35: the callback fires a minute after the last one and reads the
\* events of the first two ranges
SweepBegin(w) ==
    /\ sweep[w].pc = "idle" /\ now < MaxTime
    /\ now' = now + 1
    /\ LET eventsStartingSoon == Sorted({e \in DOMAIN events : StartingSoon(e, now')})
           eventsJustEnded == Sorted({e \in DOMAIN events : JustEnded(e, now')})
       IN sweep' = [sweep EXCEPT ![w] =
                      [pc |-> IF eventsStartingSoon = <<>>
                              THEN AfterStarting(eventsJustEnded) ELSE "starting",
                       now |-> now',
                       starting |-> eventsStartingSoon,
                       events |-> eventsJustEnded, gifts |-> <<>>, ended |-> <<>>,
                       found |-> <<>>, skipped |-> sweep[w].skipped]]
    /\ UNCHANGED <<gifts, notifications, reqs, served, events, fundVars, thankLog, socialVars, notificationSaveFails, userViewers>>

\* lines 37-52: EVENT_STARTING_SOON to the owner of each event found
SweepStartingSoon(w) ==
    /\ sweep[w].pc = "starting"
    /\ LET e == Head(sweep[w].starting)
           owner == FindUser(events[e].owner)
       IN notifications' =
              IF owner = Null THEN notifications
              ELSE CreateNotification(notifications, owner, owner,
                                      "EVENT_STARTING_SOON", "starting soon", e, "Event")
    /\ sweep' = [sweep EXCEPT ![w].starting = Tail(@),
                              ![w].pc = IF Len(sweep[w].starting) = 1
                                        THEN AfterStarting(sweep[w].events) ELSE "starting"]
    /\ UNCHANGED <<gifts, reqs, served, events, now, fundVars, thankLog, socialVars, notificationSaveFails, userViewers>>

\* the query without its filter on isReserved
ReservedGiftsOrNot(e) ==
    {g \in events[e].gifts \cap DOMAIN gifts : gifts[g].isGiven # TRUE}

\* lines 75-79: the gifts of the event that are reserved and not given
ReservedGifts(e) ==
    {g \in events[e].gifts \cap DOMAIN gifts :
        gifts[g].isReserved = TRUE /\ gifts[g].isGiven # TRUE}

\* lines 56-80: EVENT_COMPLETED to the owner, then the gifts of the event
\* that are reserved and not given
SweepCompleted(w) ==
    /\ sweep[w].pc = "event"
    /\ LET e == Head(sweep[w].events)
           owner == FindUser(events[e].owner)
           reservedGifts == Sorted(ReservedGifts(e))
       IN IF owner = Null
          THEN /\ sweep' = [sweep EXCEPT ![w].events = Tail(@),
                                ![w].pc = AfterEvent(sweep[w].events)]
               /\ UNCHANGED notifications
          ELSE /\ notifications' = CreateNotification(notifications, owner, owner,
                        "EVENT_COMPLETED", "completed", e, "Event")
               /\ sweep' = [sweep EXCEPT
                    ![w].gifts = [i \in 1 .. Len(reservedGifts) |->
                                [gift |-> reservedGifts[i], doc |-> gifts[reservedGifts[i]]]],
                    ![w].pc = IF reservedGifts = <<>> THEN "ack" ELSE "gift"]
    /\ UNCHANGED <<gifts, reqs, served, events, now, fundVars, thankLog, socialVars, notificationSaveFails, userViewers>>

\* lines 82-105: one pass of the loop: gift.isGiven = true, gift.save(),
\* GIFT_GIVEN from the reserver to the owner
SweepMarkGiven(w) ==
    /\ sweep[w].pc = "gift"
    /\ LET item == Head(sweep[w].gifts)
           sender == FindUser(item.doc.reservedBy)
           recipient == FindUser(item.doc.owner)
       IN /\ gifts' = GiftSave(item.gift, item.doc, [item.doc EXCEPT !.isGiven = TRUE])
          /\ notifications' =
                IF sender # Null /\ recipient # Null
                THEN CreateNotification(notifications, recipient, sender,
                        "GIFT_GIVEN", "gave you", item.gift, "Gift")
                ELSE notifications
    /\ sweep' = [sweep EXCEPT ![w].gifts = Tail(@),
                              ![w].pc = IF Len(sweep[w].gifts) = 1 THEN "ack" ELSE "gift"]
    /\ UNCHANGED <<reqs, served, events, now, fundVars, thankLog, socialVars, notificationSaveFails, userViewers>>

\* lines 113-126: EVENT_THANK_YOU to the members when acknowledgements are on
SweepAcknowledge(w) ==
    /\ sweep[w].pc = "ack"
    /\ LET e == Head(sweep[w].events)
       IN notifications' =
            IF events[e].sendAcknowledgements = TRUE
            THEN NotifyAll(notifications, events[e].members, FindUser(events[e].owner),
                    "EVENT_THANK_YOU", "thanked you", e, "Event")
            ELSE notifications
    /\ sweep' = [sweep EXCEPT ![w].events = Tail(@),
                              ![w].pc = AfterEvent(sweep[w].events)]
    /\ UNCHANGED <<gifts, reqs, served, events, now, fundVars, thankLog, socialVars, notificationSaveFails, userViewers>>

\* lines 129-138: the third query, made once the second pass is over, with
\* the time the callback read when it began; found: the documents as read
SweepFindEnded(w) ==
    /\ sweep[w].pc = "find"
    /\ LET eventsEnded24HoursAgo ==
              Sorted({e \in DOMAIN events : Ended24HoursAgo(e, sweep[w].now)})
       IN sweep' = [sweep EXCEPT ![w].ended = eventsEnded24HoursAgo,
                        ![w].found = [e \in SeqToSet(eventsEnded24HoursAgo) |-> events[e]],
                        ![w].pc = IF eventsEnded24HoursAgo = <<>> THEN "idle" ELSE "reveal"]
    /\ UNCHANGED <<gifts, notifications, reqs, served, events, now, fundVars, thankLog,
                   socialVars, notificationSaveFails, userViewers>>

\* the skip without its test of the gifts
RevealSkippedForOwnerOnly(owner, event) == owner = Null

\* lines 141-149: no owner, or no gifts on the event as read
RevealSkipped(owner, event) == owner = Null \/ event.gifts = {}

\* lines 140-165: one pass of the loop: skip an event without owner or
\* without gifts, else EVENT_GIFTERS_REVEALED to the owner, then
\* giftersRevealedAt = new Date() and event.save()
SweepReveal(w) ==
    /\ sweep[w].pc = "reveal"
    /\ LET e == Head(sweep[w].ended)
           event == sweep[w].found[e]
           owner == FindUser(event.owner)
       IN IF RevealSkipped(owner, event)
          THEN UNCHANGED <<notifications, events>>
          ELSE /\ notifications' = CreateNotification(notifications, owner, owner,
                        "EVENT_GIFTERS_REVEALED", "gifters revealed", e, "Event")
               /\ events' = [events EXCEPT ![e].giftersRevealedAt = now]
    /\ sweep' = [sweep EXCEPT ![w].ended = Tail(@),
                              ![w].found = IF Len(sweep[w].ended) = 1 THEN <<>> ELSE @,
                              ![w].skipped =
                                    LET e == Head(sweep[w].ended)
                                    IN IF sweep[w].found[e].gifts = {} THEN @ \cup {e} ELSE @,
                              ![w].pc = IF Len(sweep[w].ended) = 1 THEN "idle" ELSE "reveal"]
    /\ UNCHANGED <<gifts, reqs, served, now, fundVars, thankLog, socialVars, notificationSaveFails, userViewers>>

\* a store call of the callback rejects: inside the try of lines 71-111 the
\* inner catch ends the gifts of the event and the callback goes on with the
\* acknowledgements; anywhere else the catch of lines 167-169 ends the callback
SweepThrows(w) ==
    /\ sweep[w].pc # "idle"
    /\ sweep' = [sweep EXCEPT ![w] =
                    IF sweep[w].pc = "gift"
                    THEN [sweep[w] EXCEPT !.gifts = <<>>, !.pc = "ack"]
                    ELSE [sweep[w] EXCEPT !.pc = "idle", !.starting = <<>>,
                                          !.events = <<>>, !.ended = <<>>,
                                          !.found = <<>>]]
    /\ UNCHANGED <<gifts, notifications, reqs, served, events, now, fundVars, thankLog,
                   socialVars, notificationSaveFails, userViewers>>

\* lines 3-62 of the schema: a new event
NewEvent(owner, startDate, endDate, eventGifts, members) ==
    [owner |-> owner, startDate |-> startDate, endDate |-> endDate,
     gifts |-> eventGifts, members |-> members,
     startNotificationSent |-> FALSE, completionNotificationSent |-> FALSE,
     isAnonymous |-> FALSE, giftersRevealedAt |-> Null,
     sendAcknowledgements |-> FALSE, viewers |-> {}]

\* event 1 of user 1 ends at minute 2 and thanks its members; event 2 of
\* user 2 starts a day after minute 1; events 3 and 4 are anonymous and
\* ended about a day ago: event 3, with a gift, a day before minute 2, and
\* event 4, without gifts, a day before minute 0
ScheduledEvents ==
    (1 :> [NewEvent(1, Null, 2, {1}, {UserOid(2), UserOid(3)})
              EXCEPT !.sendAcknowledgements = TRUE])
    @@ (2 :> NewEvent(2, Day + 1, Null, {}, {}))
    @@ (3 :> [NewEvent(1, Null, 2 - Day, {3}, {}) EXCEPT !.isAnonymous = TRUE])
    @@ (4 :> [NewEvent(2, Null, 0 - Day, {}, {}) EXCEPT !.isAnonymous = TRUE])

\* gift 1 of user 1, on the event of user 1 that ends at minute 2: new, or
\* reserved by user 2 and marked given (which sent GIFT_RESERVED and
\* GIFT_GIVEN to user 1), or marked given after user 2 contributed twice and
\* user 3 once (the first contribution sent GIFT_FUNDRAISING_OPENED);
\* gift 2 of user 2 and gift 3 of user 1, new
InitGift ==
    /\ notificationSaveFails = FALSE
    /\ userViewers = [u \in Users |-> {}]
    /\ \/ /\ gifts = (1 :> NewGift(1, Null) @@ 2 :> NewGift(2, Null)
                        @@ 3 :> NewGift(1, Null))
          /\ notifications = EmptyBag
          /\ donations = <<>> /\ donors = <<>> /\ nextId = 21
       \/ /\ gifts = (1 :> [NewGift(1, Null) EXCEPT !.isReserved = TRUE,
                                !.reservedBy = 2, !.isGiven = TRUE]
                        @@ 2 :> NewGift(2, Null) @@ 3 :> NewGift(1, Null))
          /\ notifications =
                CreateNotification(
                    CreateNotification(EmptyBag, UserOid(1), UserOid(2),
                        "GIFT_RESERVED", "reserved", 1, "Gift"),
                    UserOid(1), UserOid(2), "GIFT_GIVEN", "gave you", 1, "Gift")
          /\ donations = <<>> /\ donors = <<>> /\ nextId = 21
       \/ /\ gifts = (1 :> [NewGift(1, Null) EXCEPT !.isGiven = TRUE, !.donation = 22]
                        @@ 2 :> NewGift(2, Null) @@ 3 :> NewGift(1, Null))
          /\ notifications =
                CreateNotification(EmptyBag, UserOid(1), UserOid(2),
                    "GIFT_FUNDRAISING_OPENED", "opened a fundraiser", 1, "Gift")
          /\ donations = (22 :> [author |-> UserOid(2), donors |-> <<21, 23, 24>>,
                                 isAnonymous |-> FALSE])
          /\ donors = (21 :> [user |-> UserOid(2), amount |-> 50]
                        @@ 23 :> [user |-> UserOid(2), amount |-> 50]
                        @@ 24 :> [user |-> UserOid(3), amount |-> 100])
          /\ nextId = 25
    /\ reqs = [r \in Req |-> IdleReq]
    /\ served = 0
    /\ closedLog = {}
    /\ events = ScheduledEvents
    /\ now = 0
    /\ sweep = [w \in Sweeper |-> IdleSweep]
    /\ thankLog = [g \in DOMAIN gifts |-> 0]
    /\ friends = [u \in Users |-> {}]
    /\ blocked = [u \in Users |-> {}]
    /\ friendRequests = <<>>

NextGift ==
    \/ \E r \in Req, actor \in Actors, g \in {1, 2, NoGift} : ReserveBegin(r, actor, g)
    \/ \E r \in Req : ReserveSave(r)
    \/ \E r \in Req, actor \in Actors, g \in {1, 2, NoGift} : MarkGivenBegin(r, actor, g)
    \/ \E r \in Req : MarkGivenSave(r)
    \/ \E r \in Req, actor \in Actors : ThankAllBegin(r, actor)
    \/ \E r \in Req : ThankAllGift(r)
    \/ SweepBegin(1)
    \/ SweepStartingSoon(1)
    \/ SweepCompleted(1)
    \/ SweepMarkGiven(1)
    \/ SweepAcknowledge(1)
    \/ SweepFindEnded(1)
    \/ SweepReveal(1)

SpecGift == InitGift /\ [][NextGift]_vars

\* the scheduler alone, with callbacks that can overlap and store calls that
\* can reject: gift 1 of user 1, on event 1, is reserved by user 2 (which
\* sent GIFT_RESERVED to user 1)
InitSweep ==
    /\ notificationSaveFails = FALSE
    /\ userViewers = [u \in Users |-> {}]
    /\ gifts = (1 :> [NewGift(1, Null) EXCEPT !.isReserved = TRUE, !.reservedBy = 2]
                  @@ 2 :> NewGift(2, Null) @@ 3 :> NewGift(1, Null))
    /\ notifications = CreateNotification(EmptyBag, UserOid(1), UserOid(2),
                            "GIFT_RESERVED", "reserved", 1, "Gift")
    /\ donations = <<>> /\ donors = <<>> /\ nextId = 21
    /\ reqs = [r \in Req |-> IdleReq]
    /\ served = 0
    /\ closedLog = {}
    /\ events = ScheduledEvents
    /\ now = 0
    /\ sweep = [w \in Sweeper |-> IdleSweep]
    /\ thankLog = [g \in DOMAIN gifts |-> 0]
    /\ friends = [u \in Users |-> {}]
    /\ blocked = [u \in Users |-> {}]
    /\ friendRequests = <<>>

NextSweep ==
    \/ \E w \in Sweeper : SweepBegin(w)
    \/ \E w \in Sweeper : SweepStartingSoon(w)
    \/ \E w \in Sweeper : SweepCompleted(w)
    \/ \E w \in Sweeper : SweepMarkGiven(w)
    \/ \E w \in Sweeper : SweepAcknowledge(w)
    \/ \E w \in Sweeper : SweepFindEnded(w)
    \/ \E w \in Sweeper : SweepReveal(w)
    \/ \E w \in Sweeper : SweepThrows(w)

SpecSweep == InitSweep /\ [][NextSweep]_vars

----------------------------------------------------------------------------
(* The friend-request state machine *)

NoRequest == 99
\* (caller, other user) of the friend handlers: both directions of a pair, a
\* user with themself, a third user, a user without a User document
FriendPairs == {<<1, 2>>, <<2, 1>>, <<1, 1>>, <<3, 1>>, <<1, 4>>, <<4, 1>>}
RequestIds == {21, 22, NoRequest}
RespondActions == {"accept", "decline", "maybe"}

\* new FriendRequest({ requester, recipient }): status defaults to pending
NewFriendRequest(requester, recipient) ==
    [requester |-> requester, recipient |-> recipient, status |-> "pending"]

\* the pending requests between a and b, either way
PendingBetween(a, b) ==
    {x \in DOMAIN friendRequests :
        /\ friendRequests[x].status = "pending"
        /\ \/ friendRequests[x].requester = a /\ friendRequests[x].recipient = b
           \/ friendRequests[x].requester = b /\ friendRequests[x].recipient = a}

\* the filter of lines 469-472: a request between a and b, in any status
AnyBetween(a, b) ==
    {x \in DOMAIN friendRequests :
        \/ friendRequests[x].requester = a /\ friendRequests[x].recipient = b
        \/ friendRequests[x].requester = b /\ friendRequests[x].recipient = a}

ArriveFriend(r, op, actor, target) ==
    [Arrive(r, op, actor, Null, IdleReq.amount) EXCEPT !.target = target]

\* lines 160-176 of POST /friends/request/:recipientTelegramId
SendBegin(r, actor, target) ==
    /\ CanStart(r)
    /\ LET me == ArriveFriend(r, "send", actor, target)
           initiator == FindUser(actor)
           recipient == FindUser(target)
       IN reqs' = Started(r,
            IF actor = target
                THEN [me EXCEPT !.pc = "done", !.resp = 400, !.err = TRUE]
            ELSE IF initiator = Null \/ recipient = Null
                THEN [me EXCEPT !.pc = "done", !.resp = 404, !.err = TRUE]
            ELSE IF recipient \in friends[initiator]
                THEN [me EXCEPT !.pc = "done", !.resp = 400, !.err = TRUE]
            ELSE [me EXCEPT !.pc = "findRequest"])
    /\ served' = served + 1
    /\ UNCHANGED <<gifts, notifications, fundVars, schedVars, thankLog, socialVars, notificationSaveFails, userViewers>>

\* the query with the first branch of $or only
ExistingRequestOneWay(initiator, recipient) ==
    \E x \in DOMAIN friendRequests :
        /\ friendRequests[x].requester = initiator
        /\ friendRequests[x].recipient = recipient
        /\ friendRequests[x].status = "pending"

\* lines 178-183: FriendRequest.findOne({ $or: [...] }) finds a document
ExistingRequest(initiator, recipient) ==
    \E x \in DOMAIN friendRequests :
        \/ /\ friendRequests[x].requester = initiator
           /\ friendRequests[x].recipient = recipient
           /\ friendRequests[x].status = "pending"
        \/ /\ friendRequests[x].requester = recipient
           /\ friendRequests[x].recipient = initiator
           /\ friendRequests[x].status = "pending"

\* lines 178-187: FriendRequest.findOne, pending in either direction
SendFindRequest(r) ==
    /\ reqs[r].op = "send" /\ reqs[r].pc = "findRequest"
    /\ reqs' = IF ExistingRequest(UserOid(reqs[r].actor), UserOid(reqs[r].target))
               THEN Respond(r, 400)
               ELSE [reqs EXCEPT ![r].pc = "save"]
    /\ UNCHANGED <<gifts, notifications, served, fundVars, schedVars, thankLog,
                   socialVars, notificationSaveFails, userViewers>>

\* lines 189-204: newRequest.save(), FRIEND_REQUEST to the recipient, 201
SendSave(r) ==
    /\ reqs[r].op = "send" /\ reqs[r].pc = "save"
    /\ friendRequests' = Insert(friendRequests, nextId,
            NewFriendRequest(UserOid(reqs[r].actor), UserOid(reqs[r].target)))
    /\ nextId' = nextId + 1
    /\ notifications' = CreateNotification(notifications, UserOid(reqs[r].target),
            UserOid(reqs[r].actor), "FRIEND_REQUEST", "wants to be friends",
            nextId, "FriendRequest")
    /\ reqs' = [Respond(r, 201) EXCEPT ![r].saved = nextId,
                    ![r].sent = Created(notifications, notifications')]
    /\ UNCHANGED <<gifts, donations, donors, closedLog, served, schedVars, thankLog,
                   friends, blocked, notificationSaveFails, userViewers>>

\* the filter without the status
RespondFindsAnyStatus(request, currentUser) == request.recipient = currentUser

\* line 302: { _id: requestId, recipient: currentUser._id, status: 'pending' }
RespondFinds(request, currentUser) ==
    request.recipient = currentUser /\ request.status = "pending"

\* lines 294-306 and 337-338 of POST /friends/request/:requestId/respond
RespondBegin(r, actor, requestId, action) ==
    /\ CanStart(r)
    /\ LET me == [ArriveFriend(r, "respond", actor, Null) EXCEPT
                        !.request = requestId, !.action = action]
           currentUser == FindUser(actor)
           request == FindById(friendRequests, requestId)
       IN reqs' = Started(r,
            IF currentUser = Null
                THEN [me EXCEPT !.pc = "done", !.resp = 404, !.err = TRUE]
            ELSE IF request = <<>> \/ ~RespondFinds(request, currentUser)
                THEN [me EXCEPT !.pc = "done", !.resp = 404, !.err = TRUE]
            ELSE IF action = "accept" THEN [me EXCEPT !.pc = "accept", !.snap = request]
            ELSE IF action = "decline" THEN [me EXCEPT !.pc = "decline", !.snap = request]
            ELSE [me EXCEPT !.pc = "done", !.resp = 400, !.err = TRUE, !.snap = request])
    /\ served' = served + 1
    /\ UNCHANGED <<gifts, notifications, fundVars, schedVars, thankLog, socialVars, notificationSaveFails, userViewers>>

\* lines 308-310: request.status = 'accepted'; request.save(), which rejects
\* when the document is gone
RespondAccept(r) ==
    /\ reqs[r].op = "respond" /\ reqs[r].pc = "accept"
    /\ IF reqs[r].request \in DOMAIN friendRequests
       THEN /\ friendRequests' = [friendRequests EXCEPT ![reqs[r].request].status = "accepted"]
            /\ reqs' = [reqs EXCEPT ![r].pc = "addToRequester"]
       ELSE /\ reqs' = Respond(r, 500)
            /\ UNCHANGED friendRequests
    /\ UNCHANGED <<gifts, notifications, served, fundVars, schedVars, thankLog,
                   friends, blocked, notificationSaveFails, userViewers>>

\* the update with the requester's own id
FriendForRequesterSwapped(request) == request.requester

\* line 312: what is added to the requester's friends
FriendForRequester(request) == request.recipient

\* line 312: $addToSet the recipient to the requester's friends
RespondAddToRequester(r) ==
    /\ reqs[r].op = "respond" /\ reqs[r].pc = "addToRequester"
    /\ friends' = [friends EXCEPT ![reqs[r].snap.requester] =
                        @ \cup {FriendForRequester(reqs[r].snap)}]
    /\ reqs' = [reqs EXCEPT ![r].pc = "addToRecipient"]
    /\ UNCHANGED <<gifts, notifications, served, fundVars, schedVars, thankLog,
                   blocked, friendRequests, notificationSaveFails, userViewers>>

\* lines 313-326: $addToSet the requester to the recipient's friends,
\* FRIEND_REQUEST_ACCEPTED to the requester, 200
RespondAddToRecipient(r) ==
    /\ reqs[r].op = "respond" /\ reqs[r].pc = "addToRecipient"
    /\ friends' = [friends EXCEPT ![reqs[r].snap.recipient] = @ \cup {reqs[r].snap.requester}]
    /\ notifications' = CreateNotification(notifications, reqs[r].snap.requester,
            UserOid(reqs[r].actor), "FRIEND_REQUEST_ACCEPTED", "accepted",
            UserOid(reqs[r].actor), "User")
    /\ reqs' = [Respond(r, 200) EXCEPT ![r].sent = 1]
    /\ UNCHANGED <<gifts, served, fundVars, schedVars, thankLog, blocked, friendRequests, notificationSaveFails, userViewers>>

\* lines 328-340: findByIdAndDelete, FRIEND_REQUEST_DECLINED to the requester
RespondDecline(r) ==
    /\ reqs[r].op = "respond" /\ reqs[r].pc = "decline"
    /\ friendRequests' = Delete(friendRequests, {reqs[r].request})
    /\ notifications' = CreateNotification(notifications, reqs[r].snap.requester,
            UserOid(reqs[r].actor), "FRIEND_REQUEST_DECLINED", "declined",
            UserOid(reqs[r].actor), "User")
    /\ reqs' = [Respond(r, 200) EXCEPT ![r].sent = 1]
    /\ UNCHANGED <<gifts, served, fundVars, schedVars, thankLog, friends, blocked, notificationSaveFails, userViewers>>

\* lines 114-124 of DELETE /friends/:friendId/remove
RemoveBegin(r, actor, target) ==
    /\ CanStart(r)
    /\ LET me == ArriveFriend(r, "remove", actor, target)
       IN reqs' = Started(r,
            IF FindUser(target) = Null \/ FindUser(actor) = Null
                THEN [me EXCEPT !.pc = "done", !.resp = 404, !.err = TRUE]
            ELSE [me EXCEPT !.pc = "pullFromFriend"])
    /\ served' = served + 1
    /\ UNCHANGED <<gifts, notifications, fundVars, schedVars, thankLog, socialVars, notificationSaveFails, userViewers>>

\* lines 126-129: $pull the caller from the friend's friends
RemovePullFromFriend(r) ==
    /\ reqs[r].op = "remove" /\ reqs[r].pc = "pullFromFriend"
    /\ friends' = [friends EXCEPT ![UserOid(reqs[r].target)] = @ \ {UserOid(reqs[r].actor)}]
    /\ reqs' = [reqs EXCEPT ![r].pc = "pullFromSelf"]
    /\ UNCHANGED <<gifts, notifications, served, fundVars, schedVars, thankLog,
                   blocked, friendRequests, notificationSaveFails, userViewers>>

\* lines 131-136: $pull the friend from the caller's friends, 200
RemovePullFromSelf(r) ==
    /\ reqs[r].op = "remove" /\ reqs[r].pc = "pullFromSelf"
    /\ friends' = [friends EXCEPT ![UserOid(reqs[r].actor)] = @ \ {UserOid(reqs[r].target)}]
    /\ reqs' = Respond(r, 200)
    /\ UNCHANGED <<gifts, notifications, served, fundVars, schedVars, thankLog,
                   blocked, friendRequests, notificationSaveFails, userViewers>>

\* lines 432-448 of POST /friends/:userId/block
BlockBegin(r, actor, target) ==
    /\ CanStart(r)
    /\ LET me == ArriveFriend(r, "block", actor, target)
       IN reqs' = Started(r,
            IF target = actor
                THEN [me EXCEPT !.pc = "done", !.resp = 400, !.err = TRUE]
            ELSE IF FindUser(target) = Null \/ FindUser(actor) = Null
                THEN [me EXCEPT !.pc = "done", !.resp = 404, !.err = TRUE]
            ELSE [me EXCEPT !.pc = "addBlocked"])
    /\ served' = served + 1
    /\ UNCHANGED <<gifts, notifications, fundVars, schedVars, thankLog, socialVars, notificationSaveFails, userViewers>>

\* lines 450-454: $addToSet the target to the caller's blocked
BlockAddBlocked(r) ==
    /\ reqs[r].op = "block" /\ reqs[r].pc = "addBlocked"
    /\ blocked' = [blocked EXCEPT ![UserOid(reqs[r].actor)] = @ \cup {UserOid(reqs[r].target)}]
    /\ reqs' = [reqs EXCEPT ![r].pc = "pullFromSelf"]
    /\ UNCHANGED <<gifts, notifications, served, fundVars, schedVars, thankLog,
                   friends, friendRequests, notificationSaveFails, userViewers>>

\* lines 456-460: $pull the target from the caller's friends
BlockPullFromSelf(r) ==
    /\ reqs[r].op = "block" /\ reqs[r].pc = "pullFromSelf"
    /\ friends' = [friends EXCEPT ![UserOid(reqs[r].actor)] = @ \ {UserOid(reqs[r].target)}]
    /\ reqs' = [reqs EXCEPT ![r].pc = "pullFromTarget"]
    /\ UNCHANGED <<gifts, notifications, served, fundVars, schedVars, thankLog,
                   blocked, friendRequests, notificationSaveFails, userViewers>>

\* lines 461-465: $pull the caller from the target's friends
BlockPullFromTarget(r) ==
    /\ reqs[r].op = "block" /\ reqs[r].pc = "pullFromTarget"
    /\ friends' = [friends EXCEPT ![UserOid(reqs[r].target)] = @ \ {UserOid(reqs[r].actor)}]
    /\ reqs' = [reqs EXCEPT ![r].pc = "deleteRequest"]
    /\ UNCHANGED <<gifts, notifications, served, fundVars, schedVars, thankLog,
                   blocked, friendRequests, notificationSaveFails, userViewers>>

\* the documents deleteOne may delete: one of those matching the filter,
\* whichever the store finds first, or none when nothing matches
DeleteOneChoices(matching) == IF matching = {} THEN {{}} ELSE {{x} : x \in matching}

\* lines 467-474: FriendRequest.deleteOne of a request between the pair, 200
BlockDeleteRequest(r) ==
    /\ reqs[r].op = "block" /\ reqs[r].pc = "deleteRequest"
    /\ \E gone \in DeleteOneChoices(AnyBetween(UserOid(reqs[r].actor),
                                               UserOid(reqs[r].target))) :
            friendRequests' = Delete(friendRequests, gone)
    /\ reqs' = Respond(r, 200)
    /\ UNCHANGED <<gifts, notifications, served, fundVars, schedVars, thankLog,
                   friends, blocked, notificationSaveFails, userViewers>>

\* users 1, 2 and 3 with nothing between them; or after user 1 sent user 2 a
\* request (21); or after user 2 accepted it; or after one of them then
\* removed the other from the friends
InitFriend ==
    /\ notificationSaveFails = FALSE
    /\ userViewers = [u \in Users |-> {}]
    /\ \/ /\ friendRequests = <<>>
          /\ friends = [u \in Users |-> {}]
          /\ notifications = EmptyBag
          /\ nextId = 21
       \/ /\ friendRequests = (21 :> NewFriendRequest(UserOid(1), UserOid(2)))
          /\ friends = [u \in Users |-> {}]
          /\ notifications = CreateNotification(EmptyBag, UserOid(2), UserOid(1),
                "FRIEND_REQUEST", "wants to be friends", 21, "FriendRequest")
          /\ nextId = 22
       \/ /\ friendRequests =
                (21 :> [NewFriendRequest(UserOid(1), UserOid(2)) EXCEPT !.status = "accepted"])
          /\ \/ friends = [u \in Users |->
                    IF u = UserOid(1) THEN {UserOid(2)}
                    ELSE IF u = UserOid(2) THEN {UserOid(1)} ELSE {}]
             \/ friends = [u \in Users |-> {}]
          /\ notifications =
                CreateNotification(
                    CreateNotification(EmptyBag, UserOid(2), UserOid(1),
                        "FRIEND_REQUEST", "wants to be friends", 21, "FriendRequest"),
                    UserOid(1), UserOid(2), "FRIEND_REQUEST_ACCEPTED", "accepted",
                    UserOid(2), "User")
          /\ nextId = 22
    /\ blocked = [u \in Users |-> {}]
    /\ gifts = <<>>
    /\ donations = <<>>
    /\ donors = <<>>
    /\ reqs = [r \in Req |-> IdleReq]
    /\ served = 0
    /\ closedLog = {}
    /\ events = <<>>
    /\ now = 0
    /\ sweep = [w \in Sweeper |-> IdleSweep]
    /\ thankLog = <<>>

NextFriend ==
    \/ \E r \in Req, p \in FriendPairs : SendBegin(r, p[1], p[2])
    \/ \E r \in Req : SendFindRequest(r)
    \/ \E r \in Req : SendSave(r)
    \/ \E r \in Req, actor \in Actors, x \in RequestIds, a \in RespondActions :
            RespondBegin(r, actor, x, a)
    \/ \E r \in Req : RespondAccept(r)
    \/ \E r \in Req : RespondAddToRequester(r)
    \/ \E r \in Req : RespondAddToRecipient(r)
    \/ \E r \in Req : RespondDecline(r)
    \/ \E r \in Req, p \in FriendPairs : RemoveBegin(r, p[1], p[2])
    \/ \E r \in Req : RemovePullFromFriend(r)
    \/ \E r \in Req : RemovePullFromSelf(r)
    \/ \E r \in Req, p \in FriendPairs : BlockBegin(r, p[1], p[2])
    \/ \E r \in Req : BlockAddBlocked(r)
    \/ \E r \in Req : BlockPullFromSelf(r)
    \/ \E r \in Req : BlockPullFromTarget(r)
    \/ \E r \in Req : BlockDeleteRequest(r)

SpecFriend == InitFriend /\ [][NextFriend]_vars

----------------------------------------------------------------------------
(* POST /friends/:friendId/add and DELETE /friends/:userId/unblock *)

\* lines 52-55: the two User.findOne; the first update reads friendToAdd._id,
\* which throws when the caller has no User document
AddBegin(r, actor, target) ==
    /\ CanStart(r)
    /\ LET me == ArriveFriend(r, "add", actor, target)
       IN reqs' = Started(r,
            IF FindUser(actor) = Null
                THEN [me EXCEPT !.pc = "done", !.resp = 500, !.err = TRUE]
            ELSE [me EXCEPT !.pc = "addToUser"])
    /\ served' = served + 1
    /\ UNCHANGED <<gifts, notifications, fundVars, schedVars, thankLog, socialVars,
                   notificationSaveFails, userViewers>>

\* lines 57-61: $addToSet the caller to the friends of the user of the path,
\* if there is such a user; the second update reads userToAdd._id, which
\* throws when there is none
AddToUser(r) ==
    /\ reqs[r].op = "add" /\ reqs[r].pc = "addToUser"
    /\ IF FindUser(reqs[r].target) = Null
       THEN /\ reqs' = Respond(r, 500)
            /\ UNCHANGED friends
       ELSE /\ friends' = [friends EXCEPT ![UserOid(reqs[r].target)] =
                                @ \cup {UserOid(reqs[r].actor)}]
            /\ reqs' = [reqs EXCEPT ![r].pc = "addToCaller"]
    /\ UNCHANGED <<gifts, notifications, served, fundVars, schedVars, thankLog,
                   blocked, friendRequests, notificationSaveFails, userViewers>>

\* lines 63-68: $addToSet the user of the path to the caller's friends, 201
AddToCaller(r) ==
    /\ reqs[r].op = "add" /\ reqs[r].pc = "addToCaller"
    /\ friends' = [friends EXCEPT ![UserOid(reqs[r].actor)] =
                        @ \cup {UserOid(reqs[r].target)}]
    /\ reqs' = Respond(r, 201)
    /\ UNCHANGED <<gifts, notifications, served, fundVars, schedVars, thankLog,
                   blocked, friendRequests, notificationSaveFails, userViewers>>

\* lines 506-521: the two User.findOne, and the target is in the caller's blocked
UnblockBegin(r, actor, target) ==
    /\ CanStart(r)
    /\ LET me == ArriveFriend(r, "unblock", actor, target)
       IN reqs' = Started(r,
            IF FindUser(target) = Null \/ FindUser(actor) = Null
                THEN [me EXCEPT !.pc = "done", !.resp = 404, !.err = TRUE]
            ELSE IF UserOid(target) \notin blocked[UserOid(actor)]
                THEN [me EXCEPT !.pc = "done", !.resp = 404, !.err = TRUE]
            ELSE [me EXCEPT !.pc = "pullBlocked"])
    /\ served' = served + 1
    /\ UNCHANGED <<gifts, notifications, fundVars, schedVars, thankLog, socialVars,
                   notificationSaveFails, userViewers>>

\* lines 523-529: $pull the target from the caller's blocked, 200
UnblockPull(r) ==
    /\ reqs[r].op = "unblock" /\ reqs[r].pc = "pullBlocked"
    /\ blocked' = [blocked EXCEPT ![UserOid(reqs[r].actor)] = @ \ {UserOid(reqs[r].target)}]
    /\ reqs' = Respond(r, 200)
    /\ UNCHANGED <<gifts, notifications, served, fundVars, schedVars, thankLog,
                   friends, friendRequests, notificationSaveFails, userViewers>>

\* the friend handlers together with add and unblock
NextSocial ==
    \/ NextFriend
    \/ \E r \in Req, p \in FriendPairs : AddBegin(r, p[1], p[2])
    \/ \E r \in Req : AddToUser(r)
    \/ \E r \in Req : AddToCaller(r)
    \/ \E r \in Req, p \in FriendPairs : UnblockBegin(r, p[1], p[2])
    \/ \E r \in Req : UnblockPull(r)

SpecSocial == InitFriend /\ [][NextSocial]_vars

----------------------------------------------------------------------------
(* The notification service under missing arguments and a failing store *)

\* a complete set of arguments of createNotification
CompleteInput ==
    [recipientId |-> UserOid(1), notificationType |-> "GIFT_RESERVED",
     message |-> "reserved", entityId |-> 1, entityModel |-> "Gift"]

\* arguments a caller can hand to createNotification: all the required ones,
\* or all but one
NotificationInputs ==
    {CompleteInput,
     [CompleteInput EXCEPT !.recipientId = Null],
     [CompleteInput EXCEPT !.notificationType = ""],
     [CompleteInput EXCEPT !.message = ""],
     [CompleteInput EXCEPT !.entityId = Null],
     [CompleteInput EXCEPT !.entityModel = ""]}

\* lines 22-43: a call of the service by any caller
CreateNotificationCall(args) ==
    /\ served < MaxReq
    /\ served' = served + 1
    /\ notifications' = CreateNotification(notifications, args.recipientId, Null,
            args.notificationType, args.message, args.entityId, args.entityModel)
    /\ UNCHANGED <<gifts, reqs, fundVars, schedVars, thankLog, socialVars,
                   notificationSaveFails, userViewers>>

\* line 37: the Notification collection starts or stops rejecting save()
NotificationStoreFlips ==
    /\ notificationSaveFails' = ~notificationSaveFails
    /\ UNCHANGED <<gifts, notifications, reqs, served, fundVars, schedVars, thankLog,
                   socialVars, userViewers>>

\* gift 1 of user 1 costs 100 and is on event 1; gift 3 of user 1 is on the
\* anonymous event 3; nobody is friends with anybody
InitNotify ==
    /\ notificationSaveFails = FALSE
    /\ userViewers = [u \in Users |-> {}]
    /\ gifts = (1 :> NewGift(1, 100) @@ 2 :> NewGift(2, Null) @@ 3 :> NewGift(1, Null))
    /\ notifications = EmptyBag
    /\ donations = <<>> /\ donors = <<>> /\ nextId = 21
    /\ reqs = [r \in Req |-> IdleReq]
    /\ served = 0
    /\ closedLog = {}
    /\ events = ScheduledEvents
    /\ now = 0
    /\ sweep = [w \in Sweeper |-> IdleSweep]
    /\ thankLog = [g \in DOMAIN gifts |-> 0]
    /\ friends = [u \in Users |-> {}]
    /\ blocked = [u \in Users |-> {}]
    /\ friendRequests = <<>>

\* the callers of the service: a reservation, a friend request, a
\* contribution and the scheduler
NextNotify ==
    \/ NotificationStoreFlips
    \/ \E args \in NotificationInputs : CreateNotificationCall(args)
    \/ \E r \in Req : ReserveBegin(r, 2, 1)
    \/ \E r \in Req : ReserveSave(r)
    \/ \E r \in Req : SendBegin(r, 1, 2)
    \/ \E r \in Req : SendFindRequest(r)
    \/ \E r \in Req : SendSave(r)
    \/ \E r \in Req : ContributeBegin(r, 2, 1, [kind |-> "num", val |-> 100])
    \/ \E r \in Req : ContributeSaveDonor(r)
    \/ \E r \in Req : ContributeFindDonation(r)
    \/ \E r \in Req : ContributePush(r)
    \/ \E r \in Req, isAnonymous \in {FALSE} : ContributeNewDonation(r, isAnonymous)
    \/ \E r \in Req : ContributeLinkGift(r)
    \/ \E r \in Req : ContributeOpened(r)
    \/ \E r \in Req : ContributeThreshold(r)
    \/ SweepBegin(1)
    \/ SweepStartingSoon(1)
    \/ SweepCompleted(1)
    \/ SweepMarkGiven(1)
    \/ SweepAcknowledge(1)
    \/ SweepFindEnded(1)
    \/ SweepReveal(1)

SpecNotify == InitNotify /\ [][NextNotify]_vars

----------------------------------------------------------------------------
(* The notification routes: list, mark read, mark all read *)

\* what reading an absent field of a document gives
Undefined == "undefined"

\* User.language of the registered users: set to ru, set to en, not set
UserLanguage(u) ==
    IF u = UserOid(1) THEN "ru" ELSE IF u = UserOid(2) THEN "en" ELSE Undefined

\* notif.message_en of a lean document: the schema has no such path, so a
\* stored document has the field only if the store was written around it
MessageEn(notif) ==
    IF "message_en" \in DOMAIN notif THEN notif.message_en ELSE Undefined

\* the selection that falls back to the default message
LocalizedOrDefault(notif, userLang) ==
    IF userLang = "en" /\ MessageEn(notif) # Undefined
    THEN MessageEn(notif) ELSE notif.message

\* line 283: message: userLang === 'en' ? notif.message_en : notif.message
Localized(notif, userLang) ==
    IF userLang = "en" THEN MessageEn(notif) ELSE notif.message

\* lines 266-297 of GET /notifications: the caller's notifications, each
\* with the message of the caller's language
GetNotifications(r, actor) ==
    /\ CanStart(r)
    /\ LET me == Arrive(r, "list", actor, Null, IdleReq.amount)
           currentUser == FindUser(actor)
           userLang == IF UserLanguage(currentUser) = Undefined
                       THEN "ru" ELSE UserLanguage(currentUser)
           found == {n \in BagToSet(notifications) : n.recipient = currentUser}
       IN reqs' = Started(r,
            IF currentUser = Null
            THEN [me EXCEPT !.pc = "done", !.resp = 500, !.err = TRUE]
            ELSE [me EXCEPT !.pc = "done", !.resp = 200,
                    !.listed = {[note |-> n, message |-> Localized(n, userLang)] :
                                    n \in found}])
    /\ served' = served + 1
    /\ UNCHANGED <<gifts, notifications, fundVars, schedVars, thankLog, socialVars,
                   notificationSaveFails, userViewers>>

\* the filter without the recipient
MarkReadMatchesAnyone(notif, currentUser) == notif \in BagToSet(notifications)

\* line 394: { _id: notificationId, recipient: currentUser._id }
MarkReadMatches(notif, currentUser) ==
    notif \in BagToSet(notifications) /\ notif.recipient = currentUser

\* $set: { isRead: true } on one copy of a document
SetRead(ns, notif) ==
    (ns (-) SetToBag({notif})) (+) SetToBag({[notif EXCEPT !.isRead = TRUE]})

\* lines 386-408 of PATCH /notifications/:notificationId/read
MarkRead(r, actor, notif) ==
    /\ CanStart(r)
    /\ LET me == [Arrive(r, "markRead", actor, Null, IdleReq.amount)
                    EXCEPT !.note = notif]
           currentUser == FindUser(actor)
       IN IF currentUser = Null
          THEN /\ reqs' = Started(r, [me EXCEPT !.pc = "done", !.resp = 500,
                                                !.err = TRUE])
               /\ UNCHANGED notifications
          ELSE IF MarkReadMatches(notif, currentUser)
          THEN /\ notifications' = SetRead(notifications, notif)
               /\ reqs' = Started(r, [me EXCEPT !.pc = "done", !.resp = 200])
          ELSE /\ reqs' = Started(r, [me EXCEPT !.pc = "done", !.resp = 404,
                                                !.err = TRUE])
               /\ UNCHANGED notifications
    /\ served' = served + 1
    /\ UNCHANGED <<gifts, fundVars, schedVars, thankLog, socialVars,
                   notificationSaveFails, userViewers>>

\* the filter without the recipient
ReadAllMatchesAnyone(notif, currentUser) == notif.isRead = FALSE

\* line 443: { recipient: currentUser._id, isRead: false }
ReadAllMatches(notif, currentUser) ==
    notif.recipient = currentUser /\ notif.isRead = FALSE

RECURSIVE UpdateMany(_, _, _)
\* Notification.updateMany(filter, { $set: { isRead: true } }) over the
\* documents of the set todo
UpdateMany(ns, todo, currentUser) ==
    IF todo = {} THEN ns
    ELSE LET n == CHOOSE x \in todo : TRUE
             rest == UpdateMany(ns, todo \ {n}, currentUser)
         IN IF ReadAllMatches(n, currentUser)
            THEN (rest (-) (n :> CopiesIn(n, ns)))
                    (+) ([n EXCEPT !.isRead = TRUE] :> CopiesIn(n, ns))
            ELSE rest

\* lines 437-455 of POST /notifications/read-all
ReadAll(r, actor) ==
    /\ CanStart(r)
    /\ LET me == Arrive(r, "readAll", actor, Null, IdleReq.amount)
           currentUser == FindUser(actor)
       IN IF currentUser = Null
          THEN /\ reqs' = Started(r, [me EXCEPT !.pc = "done", !.resp = 500,
                                                !.err = TRUE])
               /\ UNCHANGED notifications
          ELSE /\ notifications' = UpdateMany(notifications, BagToSet(notifications),
                                              currentUser)
               /\ reqs' = Started(r, [me EXCEPT !.pc = "done", !.resp = 200])
    /\ served' = served + 1
    /\ UNCHANGED <<gifts, fundVars, schedVars, thankLog, socialVars,
                   notificationSaveFails, userViewers>>

\* the notifications the service created: two unread ones for user 1, one
\* unread for user 2, one for user 3 that user 3 has read
InitRead ==
    /\ notificationSaveFails = FALSE
    /\ userViewers = [u \in Users |-> {}]
    /\ gifts = (1 :> [NewGift(1, Null) EXCEPT !.isReserved = TRUE,
                            !.reservedBy = 2, !.isGiven = TRUE])
    /\ notifications =
        LET created ==
              CreateNotification(
                CreateNotification(
                  CreateNotification(
                    CreateNotification(EmptyBag, UserOid(1), UserOid(2),
                        "GIFT_RESERVED", "reserved", 1, "Gift"),
                    UserOid(1), UserOid(2), "GIFT_GIVEN", "gave you", 1, "Gift"),
                  UserOid(2), UserOid(1), "GIFT_THANK_YOU_NOTE", "thanked you", 1, "Gift"),
                UserOid(3), UserOid(1), "FRIEND_REQUEST", "wants to be friends", 21,
                "FriendRequest")
        IN SetRead(created, CHOOSE n \in BagToSet(created) : n.recipient = UserOid(3))
    /\ donations = <<>> /\ donors = <<>> /\ nextId = 22
    /\ reqs = [r \in Req |-> IdleReq]
    /\ served = 0
    /\ closedLog = {}
    /\ events = <<>>
    /\ now = 0
    /\ sweep = [w \in Sweeper |-> IdleSweep]
    /\ thankLog = [g \in DOMAIN gifts |-> 0]
    /\ friends = [u \in Users |-> {}]
    /\ blocked = [u \in Users |-> {}]
    /\ friendRequests = (21 :> NewFriendRequest(UserOid(1), UserOid(3)))

NextRead ==
    \/ \E r \in Req, actor \in Actors : GetNotifications(r, actor)
    \/ \E r \in Req, actor \in Actors, notif \in BagToSet(notifications) \cup {NoNote} :
            MarkRead(r, actor, notif)
    \/ \E r \in Req, actor \in Actors : ReadAll(r, actor)

SpecRead == InitRead /\ [][NextRead]_vars

----------------------------------------------------------------------------
(* The read endpoints and the viewers lists *)

NoEvent == 8                     \* a well-formed event id of no Event document

\* the ObjectIds of a document as the driver hands them out: one object per
\* id and per document read
Instances(oids, doc) == {[value |-> v, from |-> doc] : v \in oids}

\* Array.prototype.includes: the same value, which for objects is the same object
Includes(array, x) == x \in array

\* array.some(v => v.toString() === x.toString()), array.some(v => v.equals(x))
SomeEquals(array, x) == \E v \in array : v.value = x.value

\* the answers of the not-found branches and of the denied branch
GiftNotFound == [resp |-> 404, message |-> "Gift not found"]
EventNotFound == [resp |-> 404, message |-> "Event not found."]
UserNotFound == [resp |-> 404, message |-> "User not found"]
AccessDenied == [resp |-> 403, message |-> "Access denied"]

\* res.status(code).json({ message }) of a read request
Refuse(me, answer) ==
    [me EXCEPT !.pc = "done", !.resp = answer.resp, !.err = TRUE,
               !.body = [NoBody EXCEPT !.message = answer.message]]

\* res.json(...) of a read request: the documents sent and the gifts in them
Send(me, docs, sentGifts) ==
    [me EXCEPT !.pc = "done", !.resp = 200,
               !.body = [NoBody EXCEPT !.docs = docs, !.gifts = sentGifts]]

\* a read request arrives and is answered
Read(r, me) ==
    /\ CanStart(r)
    /\ reqs' = Started(r, me)
    /\ served' = served + 1
    /\ UNCHANGED <<gifts, notifications, fundVars, schedVars, thankLog, socialVars,
                   notificationSaveFails, userViewers>>

\* lines 1011-1074 of GET /gifts/:giftId
GetGift(r, actor, g) ==
    LET me == Arrive(r, "getGift", actor, g, IdleReq.amount)
        gift == FindById(gifts, g)
        requesterUser == FindUser(actor)
        isOwner == gift.owner = actor
        isViewer == IF requesterUser # Null
                    THEN Includes(Instances(gift.viewers, "gift"),
                                  [value |-> requesterUser, from |-> "user"])
                    ELSE FALSE
    IN Read(r, IF gift = <<>> THEN Refuse(me, GiftNotFound)
               ELSE IF gift.viewers = {} THEN Send(me, {<<"Gift", g>>}, {g})
               ELSE IF isOwner \/ isViewer THEN Send(me, {<<"Gift", g>>}, {g})
               ELSE Refuse(me, GiftNotFound))

\* lines 946-960: the reservedUserInfo of a reserved gift, as the user found
\* for gift.reservedBy (or {} when none is found), or as the anonymous giver
NoUserInfo == [telegramId |-> Null, isAnonymous |-> FALSE]
AnonymousGiver == [telegramId |-> Null, isAnonymous |-> TRUE]
UserInfo(t) == IF FindUser(t) = Null THEN NoUserInfo ELSE [NoUserInfo EXCEPT !.telegramId = t]

\* lines 929-968: eventResponse.gifts for the gifts gs of the store: what is
\* sent of each populated gift about its reservation
EventResponseGifts(gs, event, requesterTelegramId) ==
    LET isGiftOwner == event.owner = requesterTelegramId
        isSecretMode == event.isAnonymous /\ event.giftersRevealedAt = Null /\ isGiftOwner
        showGifterInfo(g) == ~isSecretMode \/ gs[g].reservedBy = requesterTelegramId
    IN {[gift |-> g, isReserved |-> gs[g].isReserved, reservedBy |-> gs[g].reservedBy,
         reservedUserInfo |->
            IF gs[g].isReserved /\ gs[g].reservedBy # Null
            THEN IF showGifterInfo(g) THEN UserInfo(gs[g].reservedBy) ELSE AnonymousGiver
            ELSE NoUserInfo] : g \in event.gifts \cap DOMAIN gs}

\* lines 839-975 of GET /events/:id
GetEvent(r, actor, e) ==
    LET me == [Arrive(r, "getEvent", actor, Null, IdleReq.amount) EXCEPT !.target = e]
        event == FindById(events, e)
        requesterUser == FindUser(actor)
        requesterId == [value |-> requesterUser, from |-> "user"]
        isOwner == event.owner = actor
        isMember == IF requesterUser # Null
                    THEN SomeEquals(Instances(event.members, "event"), requesterId)
                    ELSE FALSE
        isViewer == IF requesterUser # Null
                    THEN SomeEquals(Instances(event.viewers, "event"), requesterId)
                    ELSE FALSE
    IN Read(r, IF event = <<>> THEN Refuse(me, EventNotFound)
               ELSE IF event.viewers # {} /\ ~isOwner /\ ~isMember /\ ~isViewer
               THEN Refuse(me, EventNotFound)
               ELSE [Send(me, {<<"Event", e>>}, event.gifts \cap DOMAIN gifts)
                        EXCEPT !.body.detail = EventResponseGifts(gifts, event, actor)])

\* lines 39-84 of GET /users/by-id/:userId
GetUser(r, actor, t) ==
    LET this == [Arrive(r, "getUser", actor, Null, IdleReq.amount) EXCEPT !.target = t]
        user == FindUser(t)
        me == FindUser(actor)
        isOwner == me # Null /\ user = me
        isInViewers == me # Null
                       /\ SomeEquals(Instances(userViewers[user], "user"),
                                     [value |-> me, from |-> "me"])
    IN Read(r, IF user = Null THEN Refuse(this, UserNotFound)
               ELSE IF userViewers[user] # {} /\ ~isOwner /\ ~isInViewers
               THEN Refuse(this, AccessDenied)
               ELSE Send(this, {<<"User", t>>}, {}))

\* the gifts of a listing, sent as they were found
SendGifts(me, found) == Send(me, {<<"Gift", g>> : g \in found}, found)

\* lines 740-782 of GET /gifts/wishlist/:telegramId
GetWishlist(r, actor, t) ==
    LET me == [Arrive(r, "wishlist", actor, Null, IdleReq.amount) EXCEPT !.target = t]
        requesterUser == FindUser(actor)
        found == {g \in DOMAIN gifts : gifts[g].owner = t}
        accessible ==
            {g \in found :
                \/ t = actor \/ gifts[g].viewers = {}
                \/ /\ requesterUser # Null
                   /\ SomeEquals(Instances(gifts[g].viewers, "gift"),
                                 [value |-> requesterUser, from |-> "user"])}
    IN Read(r, SendGifts(me, accessible))

\* lines 789-814 of GET /gifts/wishlist/:telegramId/reserved
GetReserved(r, actor, t) ==
    LET me == [Arrive(r, "reserved", actor, Null, IdleReq.amount) EXCEPT !.target = t]
    IN Read(r, SendGifts(me, {g \in DOMAIN gifts :
                                gifts[g].owner = t /\ gifts[g].isReserved = TRUE}))

\* lines 817-824 of GET /gifts/wishlist/:telegramId/unreserved
GetUnreserved(r, actor, t) ==
    LET me == [Arrive(r, "unreserved", actor, Null, IdleReq.amount) EXCEPT !.target = t]
    IN Read(r, SendGifts(me, {g \in DOMAIN gifts :
                                gifts[g].owner = t /\ gifts[g].isReserved = FALSE}))

\* lines 827-834 of GET /gifts/reserved-by/:telegramId
GetReservedBy(r, actor, t) ==
    LET me == [Arrive(r, "reservedBy", actor, Null, IdleReq.amount) EXCEPT !.target = t]
    IN Read(r, SendGifts(me, {g \in DOMAIN gifts : gifts[g].reservedBy = t}))

\* lines 1235-1367 of GET /gifts/search/:telegramId, with no filter in the query
Search(r, actor, t) ==
    LET me == [Arrive(r, "search", actor, Null, IdleReq.amount) EXCEPT !.target = t]
    IN Read(r, SendGifts(me, {g \in DOMAIN gifts : gifts[g].owner = t}))

\* lines 1341-1373 of GET /events/:eventId/my-gifts
GetMyGifts(r, actor, e) ==
    LET me == [Arrive(r, "myGifts", actor, Null, IdleReq.amount) EXCEPT !.target = e]
        event == FindById(events, e)
        populated == IF event = <<>> THEN {} ELSE event.gifts \cap DOMAIN gifts
    IN Read(r, IF event = <<>> THEN Refuse(me, EventNotFound)
               ELSE SendGifts(me, {g \in populated :
                        gifts[g].reservedBy = actor \/ gifts[g].owner = actor}))

\* gift 1 of user 1 is public; gift 2 of user 1 has user 2 as its viewer and
\* is reserved by user 3 or by nobody; event 1 of user 1 is public; event 2
\* of user 1, with gift 2, has user 2 as its viewer and user 3 as its member;
\* user 1 has user 2 as viewer
InitView ==
    /\ notificationSaveFails = FALSE
    /\ userViewers = [u \in Users |-> IF u = UserOid(1) THEN {UserOid(2)} ELSE {}]
    /\ \E reserver \in {Null, 3} :
         gifts = (1 :> NewGift(1, Null)
                  @@ 2 :> [NewGift(1, Null) EXCEPT !.viewers = {UserOid(2)},
                                !.isReserved = reserver # Null, !.reservedBy = reserver])
    /\ notifications = EmptyBag
    /\ donations = <<>> /\ donors = <<>> /\ nextId = 21
    /\ reqs = [r \in Req |-> IdleReq]
    /\ served = 0
    /\ closedLog = {}
    /\ events = (1 :> NewEvent(1, Null, Null, {1}, {}))
                @@ (2 :> [NewEvent(1, Null, Null, {2}, {UserOid(3)})
                            EXCEPT !.viewers = {UserOid(2)}])
    /\ now = 0
    /\ sweep = [w \in Sweeper |-> IdleSweep]
    /\ thankLog = [g \in DOMAIN gifts |-> 0]
    /\ friends = [u \in Users |-> {}]
    /\ blocked = [u \in Users |-> {}]
    /\ friendRequests = <<>>

NextView ==
    \/ \E r \in Req, actor \in Actors, g \in {1, 2, NoGift} : GetGift(r, actor, g)
    \/ \E r \in Req, actor \in Actors, e \in {1, 2, NoEvent} : GetEvent(r, actor, e)
    \/ \E r \in Req, actor \in Actors, t \in Actors : GetUser(r, actor, t)
    \/ \E r \in Req, actor \in Actors, t \in {1} : GetWishlist(r, actor, t)
    \/ \E r \in Req, actor \in Actors, t \in {1} : GetReserved(r, actor, t)
    \/ \E r \in Req, actor \in Actors, t \in {1} : GetUnreserved(r, actor, t)
    \/ \E r \in Req, actor \in Actors, t \in {3} : GetReservedBy(r, actor, t)
    \/ \E r \in Req, actor \in Actors, t \in {1} : Search(r, actor, t)
    \/ \E r \in Req, actor \in Actors, e \in {2, NoEvent} : GetMyGifts(r, actor, e)

SpecView == InitView /\ [][NextView]_vars

----------------------------------------------------------------------------
(* POST /events/:eventId/join, and the writes to records with viewers *)

\* lines 1020-1032: User.findOne, Event.findById, the member check; the
\* event is a Mongoose document, whose members.includes compares by value
JoinBegin(r, actor, e) ==
    /\ CanStart(r)
    /\ LET me == [Arrive(r, "join", actor, Null, IdleReq.amount) EXCEPT !.target = e]
           user == FindUser(actor)
           event == FindById(events, e)
       IN reqs' = Started(r,
            IF user = Null THEN Refuse(me, [resp |-> 404, message |-> "User not found."])
            ELSE IF event = <<>> THEN Refuse(me, EventNotFound)
            ELSE IF user \in event.members
                THEN Refuse(me, [resp |-> 400,
                                 message |-> "You are already a participant of this event."])
            ELSE [me EXCEPT !.pc = "save", !.snap = event])
    /\ served' = served + 1
    /\ UNCHANGED <<gifts, notifications, fundVars, schedVars, thankLog, socialVars,
                   notificationSaveFails, userViewers>>

\* lines 1034-1035: event.members.push(user._id), event.save()
JoinSave(r) ==
    /\ reqs[r].op = "join" /\ reqs[r].pc = "save"
    /\ events' = [events EXCEPT ![reqs[r].target].members =
                        @ \cup {FindUser(reqs[r].actor)}]
    /\ reqs' = [reqs EXCEPT ![r].pc = "notify"]
    /\ UNCHANGED <<gifts, notifications, fundVars, now, sweep, served, thankLog,
                   socialVars, notificationSaveFails, userViewers>>

\* lines 1038-1051: EVENT_PARTICIPANT_JOINED to the owner, unless the owner joined
JoinNotify(r) ==
    /\ reqs[r].op = "join" /\ reqs[r].pc = "notify"
    /\ LET sender == FindUser(reqs[r].actor)
           ownerUser == FindUser(reqs[r].snap.owner)
       IN notifications' =
            IF ownerUser # Null /\ ownerUser # sender
            THEN CreateNotification(notifications, ownerUser, sender,
                    "EVENT_PARTICIPANT_JOINED", "joined", reqs[r].target, "Event")
            ELSE notifications
    /\ reqs' = [Respond(r, 200) EXCEPT ![r].sent = Created(notifications, notifications')]
    /\ UNCHANGED <<gifts, fundVars, schedVars, served, thankLog, socialVars,
                   notificationSaveFails, userViewers>>

\* gift 1 and event 1 of user 1 are public; gift 2 (price 100) and event 2 of
\* user 1 have user 2 as their only viewer, and event 2 has no member
InitHidden ==
    /\ notificationSaveFails = FALSE
    /\ userViewers = [u \in Users |-> {}]
    /\ gifts = (1 :> NewGift(1, Null)
                @@ 2 :> [NewGift(1, 100) EXCEPT !.viewers = {UserOid(2)}])
    /\ notifications = EmptyBag
    /\ donations = <<>> /\ donors = <<>> /\ nextId = 21
    /\ reqs = [r \in Req |-> IdleReq]
    /\ served = 0
    /\ closedLog = {}
    /\ events = (1 :> NewEvent(1, Null, Null, {1}, {}))
                @@ (2 :> [NewEvent(1, Null, Null, {2}, {})
                            EXCEPT !.viewers = {UserOid(2)}])
    /\ now = 0
    /\ sweep = [w \in Sweeper |-> IdleSweep]
    /\ thankLog = [g \in DOMAIN gifts |-> 0]
    /\ friends = [u \in Users |-> {}]
    /\ blocked = [u \in Users |-> {}]
    /\ friendRequests = <<>>

NextHidden ==
    \/ \E r \in Req, actor \in Actors, e \in {1, 2, NoEvent} : JoinBegin(r, actor, e)
    \/ \E r \in Req : JoinSave(r)
    \/ \E r \in Req : JoinNotify(r)
    \/ \E r \in Req, actor \in Actors, g \in {1, 2} : ReserveBegin(r, actor, g)
    \/ \E r \in Req : ReserveSave(r)
    \/ \E r \in Req, actor \in {2, 3} :
            ContributeBegin(r, actor, 2, [kind |-> "num", val |-> 50])
    \/ \E r \in Req : ContributeSaveDonor(r)
    \/ \E r \in Req : ContributeFindDonation(r)
    \/ \E r \in Req : ContributePush(r)
    \/ \E r \in Req, isAnonymous \in {FALSE} : ContributeNewDonation(r, isAnonymous)
    \/ \E r \in Req : ContributeLinkGift(r)
    \/ \E r \in Req : ContributeOpened(r)
    \/ \E r \in Req : ContributeThreshold(r)

SpecHidden == InitHidden /\ [][NextHidden]_vars

----------------------------------------------------------------------------
(* Anonymous events *)

\* gifts 1 and 2 of user 1 are on event 1 of user 1, which is anonymous, not
\* yet revealed, and has users 2 and 3 as its members
InitAnon ==
    /\ notificationSaveFails = FALSE
    /\ userViewers = [u \in Users |-> {}]
    /\ gifts = (1 :> NewGift(1, Null) @@ 2 :> NewGift(1, Null))
    /\ notifications = EmptyBag
    /\ donations = <<>> /\ donors = <<>> /\ nextId = 21
    /\ reqs = [r \in Req |-> IdleReq]
    /\ served = 0
    /\ closedLog = {}
    /\ events = (1 :> [NewEvent(1, Null, Null, {1, 2}, {UserOid(2), UserOid(3)})
                            EXCEPT !.isAnonymous = TRUE])
    /\ now = 0
    /\ sweep = [w \in Sweeper |-> IdleSweep]
    /\ thankLog = [g \in DOMAIN gifts |-> 0]
    /\ friends = [u \in Users |-> {}]
    /\ blocked = [u \in Users |-> {}]
    /\ friendRequests = <<>>

NextAnon ==
    \/ \E r \in Req, actor \in {2, 3}, g \in {1, 2} : ReserveBegin(r, actor, g)
    \/ \E r \in Req : ReserveSave(r)
    \/ \E r \in Req, actor \in {1, 2, 3} : GetEvent(r, actor, 1)

SpecAnon == InitAnon /\ [][NextAnon]_vars

----------------------------------------------------------------------------
(* POST /events/:eventId/addGift/:giftId, and the reveal of the givers *)

\* lines 1180-1205: Event.findById, Gift.findById, User.findOne, the caller
\* is the owner or a member, the gift is not on the event yet
AddGiftBegin(r, actor, e, g) ==
    /\ CanStart(r)
    /\ LET me == [Arrive(r, "addGift", actor, g, IdleReq.amount) EXCEPT !.target = e]
           event == FindById(events, e)
           user == FindUser(actor)
       IN reqs' = Started(r,
            IF event = <<>> THEN Refuse(me, EventNotFound)
            ELSE IF FindById(gifts, g) = <<>>
                THEN Refuse(me, [resp |-> 404, message |-> "Gift not found."])
            ELSE IF user = Null THEN Refuse(me, [resp |-> 401, message |-> "Unauthorized."])
            ELSE IF event.owner # actor /\ user \notin event.members
                THEN Refuse(me, [resp |-> 403,
                        message |-> "You are not authorized to add gifts to this event."])
            ELSE IF g \in event.gifts
                THEN Refuse(me, [resp |-> 400,
                        message |-> "This gift is already added to the event."])
            ELSE [me EXCEPT !.pc = "save", !.snap = event])
    /\ served' = served + 1
    /\ UNCHANGED <<gifts, notifications, fundVars, schedVars, thankLog, socialVars,
                   notificationSaveFails, userViewers>>

\* lines 1208-1211: event.gifts.push(giftId), event.save()
AddGiftSave(r) ==
    /\ reqs[r].op = "addGift" /\ reqs[r].pc = "save"
    /\ events' = [events EXCEPT ![reqs[r].target].gifts = @ \cup {reqs[r].gift}]
    /\ reqs' = Respond(r, 200)
    /\ UNCHANGED <<gifts, notifications, fundVars, now, sweep, served, thankLog,
                   socialVars, notificationSaveFails, userViewers>>

\* the scheduled events, and event 5 of user 1: anonymous, without gifts,
\* ended a day before minute 1
RevealEvents ==
    ScheduledEvents
    @@ (5 :> [NewEvent(1, Null, 1 - Day, {}, {}) EXCEPT !.isAnonymous = TRUE])

\* gift 1 of user 1 is reserved by user 2; gifts 2 and 3 are new
InitReveal ==
    /\ notificationSaveFails = FALSE
    /\ userViewers = [u \in Users |-> {}]
    /\ gifts = (1 :> [NewGift(1, Null) EXCEPT !.isReserved = TRUE, !.reservedBy = 2]
                  @@ 2 :> NewGift(2, Null) @@ 3 :> NewGift(1, Null))
    /\ notifications = CreateNotification(EmptyBag, UserOid(1), UserOid(2),
                            "GIFT_RESERVED", "reserved", 1, "Gift")
    /\ donations = <<>> /\ donors = <<>> /\ nextId = 21
    /\ reqs = [r \in Req |-> IdleReq]
    /\ served = 0
    /\ closedLog = {}
    /\ events = RevealEvents
    /\ now = 0
    /\ sweep = [w \in Sweeper |-> IdleSweep]
    /\ thankLog = [g \in DOMAIN gifts |-> 0]
    /\ friends = [u \in Users |-> {}]
    /\ blocked = [u \in Users |-> {}]
    /\ friendRequests = <<>>

NextReveal ==
    \/ \E r \in Req, actor \in {1, 2, 3, 4}, e \in {4, 5, NoEvent}, g \in {2, NoGift} :
            AddGiftBegin(r, actor, e, g)
    \/ \E r \in Req : AddGiftSave(r)
    \/ SweepBegin(1)
    \/ SweepStartingSoon(1)
    \/ SweepCompleted(1)
    \/ SweepMarkGiven(1)
    \/ SweepAcknowledge(1)
    \/ SweepFindEnded(1)
    \/ SweepReveal(1)

SpecReveal == InitReveal /\ [][NextReveal]_vars

----------------------------------------------------------------------------
(* Properties of the crowdfunding engine *)

Quiescent == \A r \in Req : ~InFlight(r)

Overlap(r, q) == r \in reqs[q].seen \/ q \in reqs[r].seen

\* the request in slot r overlapped no request that is still remembered
Alone(r) == \A q \in Req \ {r} : ~Overlap(r, q)

ContribDone(r) == reqs[r].op = "contribute" /\ reqs[r].pc = "done"

PriceSet(g) == gifts[g].price # Null /\ gifts[g].price > 0

LiveDonation(g) == gifts[g].donation \in DOMAIN donations

\* the donors of gift g's collection, in the order they were attached
DonorSeq(g) == donations[gifts[g].donation].donors

RECURSIVE Cumulative(_, _)
\* the amount collected by the first i contributions of the sequence ds
Cumulative(ds, i) ==
    IF i = 0 THEN 0
    ELSE Cumulative(ds, i - 1)
            + (IF ds[i] \in DOMAIN donors THEN donors[ds[i]].amount ELSE 0)

\* the positions of the contributions that took the total from below the
\* price to the price or above
Crossing(g) ==
    {i \in 1 .. Len(DonorSeq(g)) :
        /\ Cumulative(DonorSeq(g), i - 1) < gifts[g].price
        /\ Cumulative(DonorSeq(g), i) >= gifts[g].price}

RECURSIVE Copies(_, _)
\* the number of documents of the bag B that are in the set S
Copies(B, S) ==
    IF S = {} THEN 0
    ELSE LET n == CHOOSE x \in S : TRUE
         IN CopiesIn(n, B) + Copies(B, S \ {n})

\* the number of notifications of a type about an entity that a recipient got
Received(u, type, entityId) ==
    Copies(notifications,
           {n \in BagToSet(notifications) :
                n.recipient = u /\ n.type = type /\ n.entityId = entityId})

ClosedNotes(g) ==
    {n \in BagToSet(notifications) :
        n.type = "GIFT_FUNDRAISING_CLOSED" /\ n.entityId = g}

\* C1: for a gift with a price, once no request is in flight, the
\* contributions of its collection that sent GIFT_FUNDRAISING_CLOSED are
\* exactly the one that first took the cumulative total to the price or above
C1_ClosedExactlyOnce ==
    \A g \in DOMAIN gifts :
        (Quiescent /\ PriceSet(g) /\ LiveDonation(g)) =>
            {i \in 1 .. Len(DonorSeq(g)) : DonorSeq(g)[i] \in closedLog} = Crossing(g)

\* C2: two overlapping contribute requests to the same gift never both send
\* GIFT_FUNDRAISING_CLOSED
C2_NoDoubleClose ==
    \A r, q \in Req :
        (r # q /\ reqs[r].op = "contribute" /\ reqs[q].op = "contribute"
            /\ reqs[r].gift = reqs[q].gift /\ Overlap(r, q))
        => ~(reqs[r].donor \in closedLog /\ reqs[q].donor \in closedLog)

\* two overlapping contributions of the full price, both made to the priced
\* gift while it had no collection, have both been answered
C2_Witness ==
    \E r, q \in Req :
        /\ r # q /\ Overlap(r, q)
        /\ ContribDone(r) /\ ContribDone(q)
        /\ reqs[r].donor \in DOMAIN donors /\ reqs[q].donor \in DOMAIN donors
        /\ reqs[r].gift = reqs[q].gift /\ PriceSet(reqs[r].gift)
        /\ reqs[r].snap.donation = Null /\ reqs[q].snap.donation = Null
        /\ donors[reqs[r].donor].amount >= gifts[reqs[r].gift].price
        /\ donors[reqs[q].donor].amount >= gifts[reqs[q].gift].price

\* C3: once the last contribution of a collection has crossed the price, the
\* GIFT_FUNDRAISING_CLOSED notifications of the gift are one per member of
\* {owner} \cup {contributing users}, each sent by the crossing contributor
C3_ClosedRecipients ==
    \A g \in DOMAIN gifts :
        (Quiescent /\ PriceSet(g) /\ LiveDonation(g)
            /\ Len(DonorSeq(g)) \in Crossing(g)
            /\ \A i \in 1 .. Len(DonorSeq(g)) : DonorSeq(g)[i] \in DOMAIN donors)
        => LET ds == DonorSeq(g)
               crosser == donors[ds[Len(ds)]].user
               recipients == {UserOid(gifts[g].owner)}
                                \cup {donors[ds[i]].user : i \in 1 .. Len(ds)}
           IN /\ \A u \in recipients : Received(u, "GIFT_FUNDRAISING_CLOSED", g) = 1
              /\ \A n \in ClosedNotes(g) :
                    n.recipient \in recipients /\ n.sender = crosser

\* C4: a contribute request of a registered user with a valid amount that
\* overlapped no other request answers 200; on a gift without a collection
\* it leaves one Donation, authored by the contributor, holding the new
\* Donor and referenced by the gift, and has sent one
\* GIFT_FUNDRAISING_OPENED to the owner; on a gift with a collection it has
\* appended the new Donor to it and created no Donation
C4_ContributeOpensOrAppends ==
    [][\A r \in Req :
        (/\ reqs[r].op = "contribute" /\ InFlight(r) /\ reqs'[r].pc = "done"
         /\ Alone(r)' /\ reqs[r].actor \in Registered)
        => LET me == reqs'[r]
               g == me.gift
           IN IF me.snap.donation = Null
              THEN /\ me.resp = 200
                   /\ me.saved # Null
                   /\ gifts'[g].donation = me.saved
                   /\ DOMAIN donations' = {me.saved}
                   /\ donations'[me.saved].author = UserOid(me.actor)
                   /\ donations'[me.saved].donors = <<me.donor>>
                   /\ me.sent = 1
                   /\ \E n \in BagToSet(notifications') :
                        /\ n.type = "GIFT_FUNDRAISING_OPENED"
                        /\ n.recipient = UserOid(gifts'[g].owner)
                        /\ n.sender = UserOid(me.actor)
                        /\ n.entityId = g
              ELSE /\ me.resp = 200
                   /\ me.saved = Null
                   /\ gifts'[g].donation = me.snap.donation
                   /\ me.snap.donation \in DOMAIN donations'
                   /\ donations'[me.snap.donation].donors
                        = Append(me.dsnap.donors, me.donor)
      ]_vars

\* C5: a contribute request that was answered with an error has saved no
\* Donor and no Donation, has not written gift.donation and has sent no
\* notification
C5_ErrorMeansNoMutation ==
    \A r \in Req :
        (ContribDone(r) /\ reqs[r].resp \in {400, 404, 500})
        => /\ reqs[r].donor = Null
           /\ reqs[r].saved = Null
           /\ ~reqs[r].linked
           /\ reqs[r].sent = 0

\* C6: after any interleaving of contribute requests alone, all answered,
\* every Donation is the one some gift references and every Donor is
\* attached to such a Donation
C6_OneLiveDonation ==
    (/\ \A r \in Req : reqs[r].pc \in {"idle", "done"}
     /\ \A r \in Req : reqs[r].op \in {"none", "contribute"}
     /\ Cardinality({r \in Req : reqs[r].op # "none"}) = served
     /\ \A r \in Req : reqs[r].actor # Null => reqs[r].resp \in {200, 400, 404})
    => /\ \A d \in DOMAIN donations : \E g \in DOMAIN gifts : gifts[g].donation = d
       /\ \A x \in DOMAIN donors : \E g \in DOMAIN gifts :
            /\ LiveDonation(g)
            /\ x \in SeqToSet(DonorSeq(g))

\* C7: a withdraw request on a gift with a live collection that overlapped
\* no other request answers 200 iff the actor is the collection's author or
\* the gift's owner; answered 200, it has deleted every Donor of the
\* collection and the Donation and cleared gift.donation; otherwise Donors,
\* Donation and gift.donation are as they were
C7_WithdrawAuthorOrOwner ==
    [][\A r \in Req :
        (/\ reqs[r].op = "withdraw" /\ InFlight(r) /\ reqs'[r].pc = "done"
         /\ Alone(r)' /\ reqs'[r].dsnap # <<>>)
        => LET me == reqs'[r]
               g == me.gift
               permitted == \/ me.dsnap.author = FindUser(me.actor)
                            \/ me.actor = gifts[g].owner
           IN /\ (me.resp = 200) <=> permitted
              /\ me.resp = 200 =>
                    /\ me.snap.donation \notin DOMAIN donations'
                    /\ \A x \in SeqToSet(me.dsnap.donors) : x \notin DOMAIN donors'
                    /\ gifts'[g].donation = Null
              /\ me.resp # 200 =>
                    /\ donations' = donations /\ donors' = donors /\ gifts' = gifts
                    /\ donations'[me.snap.donation] = me.dsnap
                    /\ gifts'[g].donation = me.snap.donation
      ]_vars

\* the collection's author, who does not own the gift, has withdrawn it
C7_Witness ==
    \E r \in Req :
        /\ reqs[r].op = "withdraw" /\ reqs[r].pc = "done" /\ reqs[r].resp = 200
        /\ Alone(r)
        /\ reqs[r].actor # gifts[reqs[r].gift].owner
        /\ reqs[r].dsnap.author = UserOid(reqs[r].actor)
        /\ Len(reqs[r].dsnap.donors) > 0
        /\ donors = <<>> /\ donations = <<>>
        /\ gifts[reqs[r].gift].donation = Null

----------------------------------------------------------------------------
(* Properties of the gift state machine *)

Reserver(g) == gifts[g].reservedBy

ReserveSaved(r) == reqs[r].op = "reserve" /\ reqs[r].pc = "done" /\ reqs[r].resp = 200

\* C8: in every reachable state every gift has isReserved true iff its
\* reservedBy is defined, whatever reserve/unreserve toggles, mark-given
\* toggles, thank-all passes and scheduler runs have been interleaved
C8_ReservedIffReserver ==
    \A g \in DOMAIN gifts : gifts[g].isReserved <=> Reserver(g) # Null

\* two overlapping reserve requests of different users on the same free gift
\* have both saved, and a scheduler run has then marked the gift given
C8_Witness ==
    \E r \in Req, q \in Req :
        /\ r # q /\ ReserveSaved(r) /\ ReserveSaved(q) /\ Overlap(r, q)
        /\ reqs[r].gift = reqs[q].gift /\ reqs[r].actor # reqs[q].actor
        /\ ~reqs[r].snap.isReserved /\ ~reqs[q].snap.isReserved
        /\ gifts[reqs[r].gift].isReserved
        /\ Reserver(reqs[r].gift) = reqs[r].actor
        /\ gifts[reqs[r].gift].isGiven /\ now > 0

\* C9: in every reachable state every gift with isThanked true has isGiven
\* true
C9_ThankedImpliesGiven ==
    \A g \in DOMAIN gifts : gifts[g].isThanked => gifts[g].isGiven

\* the gift was reserved by somebody other than the caller of the reserve
\* request in slot r when the request read it, and the request is about to save
ReserveOnTaken(r) ==
    /\ reqs[r].op = "reserve" /\ reqs[r].pc = "save"
    /\ reqs[r].snap.isReserved
    /\ reqs[r].snap.reservedBy # Null
    /\ reqs[r].snap.reservedBy # reqs[r].actor

\* C10: a reserve request of a non-owner B on a gift that A, another user,
\* has reserved fails and leaves isReserved true and reservedBy = A
C10_ReserveOnReservedFails ==
    [][\A r \in Req :
        (/\ ReserveOnTaken(r) /\ reqs'[r].pc = "done"
         /\ gifts[reqs[r].gift].isReserved
         /\ Reserver(reqs[r].gift) = reqs[r].snap.reservedBy)
        => /\ reqs'[r].err
           /\ gifts'[reqs[r].gift].isReserved
           /\ gifts'[reqs[r].gift].reservedBy = reqs[r].snap.reservedBy
      ]_vars

\* C10 as amended: a reserve request of a non-owner B that read the gift as
\* reserved by A, another user, releases the reservation: it answers 200,
\* leaves isReserved false and reservedBy undefined (B does not become the
\* reserver) and sends no notification
C10_ReserveOnReservedReleases ==
    [][\A r \in Req :
        (ReserveOnTaken(r) /\ reqs'[r].pc = "done")
        => /\ reqs'[r].resp = 200 /\ ~reqs'[r].err
           /\ gifts'[reqs[r].gift].isReserved = FALSE
           /\ gifts'[reqs[r].gift].reservedBy = Null
           /\ notifications' = notifications
      ]_vars

\* user 3 has sent a reserve request on gift 1 of user 1 while user 2 held
\* the reservation, and the gift is free
C10_Witness ==
    \E r \in Req :
        /\ ReserveSaved(r) /\ reqs[r].gift = 1 /\ reqs[r].actor = 3
        /\ reqs[r].snap.isReserved /\ reqs[r].snap.reservedBy = 2
        /\ ~gifts[1].isReserved /\ Reserver(1) = Null

\* the reservation and gifting fields of a gift
GiftState(g) ==
    <<gifts[g].isReserved, gifts[g].reservedBy, gifts[g].isGiven, gifts[g].isThanked>>

\* the request in slot r is a reserve request of the gift's owner, or a
\* mark-given request of somebody else, on an existing gift
Unauthorized(r) ==
    /\ reqs[r].gift \in DOMAIN gifts
    /\ \/ reqs[r].op = "reserve" /\ reqs[r].actor = gifts[reqs[r].gift].owner
       \/ reqs[r].op = "markGiven" /\ reqs[r].actor # gifts[reqs[r].gift].owner

\* C11: a reserve request of the gift's owner and a mark-given request of a
\* non-owner are answered with an error by a step that leaves isReserved,
\* reservedBy, isGiven and isThanked of every gift as they were and creates
\* no notification, and such a request never takes another step
C11_UnauthorizedNoMutation ==
    [][\A r \in Req :
        /\ (Unauthorized(r)' /\ reqs'[r] # reqs[r] /\ reqs'[r].pc # "aborted")
            => /\ reqs'[r].pc = "done" /\ reqs'[r].err /\ reqs'[r].resp = 403
               /\ reqs'[r].sent = 0
               /\ \A g \in DOMAIN gifts : GiftState(g)' = GiftState(g)
               /\ notifications' = notifications
      ]_vars

\* user 2, who has reserved gift 1 of user 1, has sent a mark-given request
\* for it and was refused
C11_Witness ==
    \E r \in Req :
        /\ reqs[r].op = "markGiven" /\ reqs[r].pc = "done" /\ reqs[r].resp = 403
        /\ reqs[r].gift = 1 /\ reqs[r].actor = 2
        /\ gifts[1].isReserved /\ gifts[1].reservedBy = 2

\* the request that arrives in this step is in slot r
Arrives(r) ==
    /\ served' = served + 1
    /\ ~InFlight(r) /\ \A q \in Req : q < r => InFlight(q)

\* C12: a thank-all call that follows a successful thank-all call of the
\* same owner with nothing in between (no other request, no scheduler run)
\* answers 200 at once, creates no notification and changes no gift; and
\* when thank-all calls run one after another, each gift has had
\* GIFT_THANK_YOU_NOTE notifications from at most one call
C12_ThankAllIdempotent ==
    [][/\ (/\ reqs[1].op = "thankAll" /\ reqs[1].pc = "done" /\ reqs[1].resp = 200
           /\ reqs[2].op = "none" /\ now = 0
           /\ Arrives(1) /\ reqs'[1].op = "thankAll"
           /\ reqs'[1].actor = reqs[1].actor)
          => /\ reqs'[1].pc = "done" /\ reqs'[1].resp = 200 /\ ~reqs'[1].err
             /\ reqs'[1].sent = 0 /\ reqs'[1].todo = <<>>
             /\ gifts' = gifts /\ notifications' = notifications
       /\ reqs'[2].op = "none" => \A g \in DOMAIN gifts : thankLog'[g] <= 1
      ]_vars

\* user 1 has called thank-all twice in a row; the first call thanked user 2
\* for gift 1 and the second sent nothing
C12_Witness ==
    /\ served = 2 /\ now = 0 /\ reqs[2].op = "none"
    /\ reqs[1].op = "thankAll" /\ reqs[1].pc = "done" /\ reqs[1].resp = 200
    /\ reqs[1].actor = 1 /\ reqs[1].sent = 0
    /\ thankLog[1] = 1 /\ gifts[1].isThanked
    /\ Received(UserOid(2), "GIFT_THANK_YOU_NOTE", 1) = 1

\* the gifts POST /thanks/gifts of user a has to thank for
Eligible(a) ==
    {g \in DOMAIN gifts : gifts[g].owner = a /\ gifts[g].isGiven /\ ~gifts[g].isThanked}

\* the users to thank for gift g: the contributors if it was crowdfunded,
\* else the reserver
ThankRecipients(g) ==
    IF LiveDonation(g)
    THEN {donors[d].user : d \in SeqToSet(DonorSeq(g)) \cap DOMAIN donors}
    ELSE IF gifts[g].reservedBy \in Registered THEN {UserOid(gifts[g].reservedBy)}
    ELSE {}

----------------------------------------------------------------------------
(* Properties of the friend-request state machine *)

\* the step that answers the accept of the request in slot r, which
\* overlapped no other request
AcceptEnds(r) ==
    /\ reqs[r].op = "respond" /\ reqs[r].pc = "addToRecipient"
    /\ reqs'[r].pc = "done" /\ Alone(r)

C15_OnePendingPerPair ==
    \A a \in Users, b \in Users : Cardinality(PendingBetween(a, b)) <= 1

AreFriends(a, b) == b \in friends[a] /\ a \in friends[b]

Unrelated(a, b) == b \notin friends[a] /\ a \notin friends[b]

\* C16: a send request that overlapped no other request, from a user to
\* themself, to a friend, or to a user with a pending request between them
\* in either direction, is answered with an error and creates no
\* FriendRequest and no notification; from a user to another user who is not
\* a friend and has no pending request with them, it creates one pending
\* FriendRequest and one FRIEND_REQUEST notification to the recipient
C16_SendFailsOrCreates ==
    [][\A r \in Req :
        (/\ reqs'[r].op = "send" /\ reqs'[r].pc = "done"
         /\ Arrives(r) \/ (reqs[r].op = "send" /\ InFlight(r))
         /\ Alone(r)')
        => LET a == reqs'[r].actor
               t == reqs'[r].target
               ua == UserOid(a)
               ut == UserOid(t)
           IN /\ (\/ a = t
                  \/ /\ a \in Registered /\ t \in Registered
                     /\ AreFriends(ua, ut) \/ PendingBetween(ua, ut) # {})
                 => /\ reqs'[r].err /\ reqs'[r].resp = 400
                    /\ reqs'[r].saved = Null /\ reqs'[r].sent = 0
                    /\ friendRequests' = friendRequests
                    /\ notifications' = notifications
              /\ (/\ a # t /\ a \in Registered /\ t \in Registered
                  /\ Unrelated(ua, ut) /\ PendingBetween(ua, ut) = {})
                 => /\ reqs'[r].resp = 201
                    /\ reqs'[r].saved \notin DOMAIN friendRequests
                    /\ friendRequests' = Insert(friendRequests, reqs'[r].saved,
                            [requester |-> ua, recipient |-> ut, status |-> "pending"])
                    /\ notifications' = notifications (+) SetToBag(
                            {[recipient |-> ut, sender |-> ua, type |-> "FRIEND_REQUEST",
                              message |-> "wants to be friends",
                              entityId |-> reqs'[r].saved,
                              entityModel |-> "FriendRequest", isRead |-> FALSE]})
      ]_vars

\* user 2 was refused a request to user 1 while request 21 of user 1 to
\* user 2 was pending
C16_Witness ==
    \E r \in Req :
        /\ reqs[r].op = "send" /\ reqs[r].pc = "done" /\ reqs[r].resp = 400
        /\ reqs[r].actor = 2 /\ reqs[r].target = 1 /\ Alone(r)
        /\ PendingBetween(UserOid(1), UserOid(2)) = {21}
        /\ friendRequests[21].requester = UserOid(1)

\* C17: a respond request that arrives when no pending FriendRequest with
\* its id is addressed to the caller is answered with an error at once, and
\* no friends set, no FriendRequest and no notification changes
C17_RespondNeedsPending ==
    [][\A r \in Req :
        (/\ Arrives(r) /\ reqs'[r].op = "respond"
         /\ ~(/\ reqs'[r].request \in DOMAIN friendRequests
              /\ reqs'[r].actor \in Registered
              /\ friendRequests[reqs'[r].request].recipient = UserOid(reqs'[r].actor)
              /\ friendRequests[reqs'[r].request].status = "pending"))
        => /\ reqs'[r].pc = "done" /\ reqs'[r].err /\ reqs'[r].resp = 404
           /\ friends' = friends /\ friendRequests' = friendRequests
           /\ notifications' = notifications
      ]_vars

\* user 2 was refused a second answer to request 21, which is accepted
C17_Witness ==
    \E r \in Req :
        /\ reqs[r].op = "respond" /\ reqs[r].pc = "done" /\ reqs[r].resp = 404
        /\ reqs[r].actor = 2 /\ reqs[r].request = 21
        /\ 21 \in DOMAIN friendRequests
        /\ friendRequests[21].status = "accepted"
        /\ friendRequests[21].recipient = UserOid(2)

\* C18: when a block request that overlapped no other request is answered,
\* the target is in the caller's blocked, neither user is in the other's
\* friends, and no pending FriendRequest exists between them
C18_BlockSevers ==
    [][\A r \in Req :
        (/\ reqs[r].op = "block" /\ reqs[r].pc = "deleteRequest"
         /\ reqs'[r].pc = "done" /\ Alone(r))
        => LET ua == UserOid(reqs[r].actor)
               ut == UserOid(reqs[r].target)
           IN /\ ut \in blocked'[ua]
              /\ ut \notin friends'[ua] /\ ua \notin friends'[ut]
              /\ PendingBetween(ua, ut)' = {}
      ]_vars

(* The scheduler's notifications about an event *)

\* how many notifications of one type about event e its owner holds
OwnerReceived(e, type) ==
    LET mine == {n \in BagToSet(notifications) :
                    /\ n.recipient = UserOid(events[e].owner)
                    /\ n.type = type
                    /\ n.entityModel = "Event" /\ n.entityId = e}
    IN Copies(notifications, mine)

\* C19: over any sequence of one-minute sweeps the owner of an event holds at
\* most one EVENT_COMPLETED notification about that event.
C19_CompletedAtMostOnce ==
    \A e \in DOMAIN events : OwnerReceived(e, "EVENT_COMPLETED") <= 1

\* C20: over any sequence of one-minute sweeps the owner of an event holds at
\* most one EVENT_STARTING_SOON notification about that event; in particular
\* the sweep a minute after the one that falls exactly a day before startDate
\* adds none.
C20_StartingSoonAtMostOnce ==
    \A e \in DOMAIN events : OwnerReceived(e, "EVENT_STARTING_SOON") <= 1

\* C21: over sweeps that do not overlap, the owner of an anonymous event
\* holds at most one EVENT_GIFTERS_REVEALED about it, the step that sends it
\* leaves giftersRevealedAt set, and a set giftersRevealedAt stays set.
C21_RevealedOnce ==
    [][\A e \in DOMAIN events :
          /\ OwnerReceived(e, "EVENT_GIFTERS_REVEALED")' <= 1
          /\ OwnerReceived(e, "EVENT_GIFTERS_REVEALED")'
                > OwnerReceived(e, "EVENT_GIFTERS_REVEALED")
             => /\ events[e].isAnonymous = TRUE
                /\ events[e].giftersRevealedAt = Null
                /\ events'[e].giftersRevealedAt # Null
          /\ events[e].giftersRevealedAt # Null => events'[e].giftersRevealedAt # Null]_vars

\* the gifters of event 3 were revealed by one sweep and a later sweep has
\* made its third query
C21_Witness ==
    /\ events[3].giftersRevealedAt # Null
    /\ OwnerReceived(3, "EVENT_GIFTERS_REVEALED") = 1
    /\ sweep[1].now > events[3].giftersRevealedAt
    /\ sweep[1].pc = "idle"

(* The gifts of a completed event *)

\* the GIFT_GIVEN notification about gift g from the user with telegramId
\* `from` to the user with telegramId `to`
GiftGivenNote(g, from, to) ==
    [recipient |-> UserOid(to), sender |-> UserOid(from), type |-> "GIFT_GIVEN",
     message |-> "gave you", entityId |-> g, entityModel |-> "Gift", isRead |-> FALSE]

\* the step of callback w reads the gifts of the event it completes: exactly
\* the gifts of the event that are reserved and not given
SweepSelects(w) ==
    (sweep[w].pc = "event" /\ sweep'[w].pc \in {"gift", "ack"})
    => {sweep'[w].gifts[i].gift : i \in DOMAIN sweep'[w].gifts}
          = {g \in events[Head(sweep[w].events)].gifts \cap DOMAIN gifts :
                gifts[g].isReserved = TRUE /\ gifts[g].isGiven # TRUE}

\* a step of the callbacks that handles no gift changes no gift
SweepElseKeeps ==
    (sweep' # sweep /\ \A w \in Sweeper : sweep[w].pc # "gift") => gifts' = gifts

\* C24 as stated: the sweep that completes an event marks each of its reserved,
\* not given gifts given and sends one GIFT_GIVEN to the gift's owner from the
\* reserver; it changes isGiven of no other gift.
C24_SweepMarksAndNotifies ==
    [][/\ SweepElseKeeps
       /\ \A w \in Sweeper :
            /\ SweepSelects(w)
            /\ (sweep[w].pc = "gift" /\ sweep'[w] # sweep[w])
               => LET item == Head(sweep[w].gifts)
                  IN /\ gifts'[item.gift].isGiven = TRUE
                     /\ \A h \in DOMAIN gifts \ {item.gift} : gifts'[h] = gifts[h]
                     /\ notifications' = notifications (+)
                          SetToBag({GiftGivenNote(item.gift, item.doc.reservedBy,
                                                  item.doc.owner)})]_vars

\* C24 amended: the same, with the GIFT_GIVEN sent when the reserver and the
\* owner are registered users and no notification otherwise.
C24_SweepMarksAndNotifiesRegistered ==
    [][/\ SweepElseKeeps
       /\ \A w \in Sweeper :
            /\ SweepSelects(w)
            /\ (sweep[w].pc = "gift" /\ sweep'[w] # sweep[w])
               => LET item == Head(sweep[w].gifts)
                  IN /\ gifts'[item.gift].isGiven = TRUE
                     /\ \A h \in DOMAIN gifts \ {item.gift} : gifts'[h] = gifts[h]
                     /\ notifications' =
                          IF item.doc.reservedBy \in Registered
                             /\ item.doc.owner \in Registered
                          THEN notifications (+)
                                 SetToBag({GiftGivenNote(item.gift, item.doc.reservedBy,
                                                         item.doc.owner)})
                          ELSE notifications]_vars

\* the only request so far reserved gift 1, and the sweep that completed the
\* event of gift 1 has marked it given and notified its owner
C24_Witness ==
    /\ served = 1 /\ reqs[1].op = "reserve" /\ reqs[1].pc = "done"
    /\ gifts[1].isReserved = TRUE /\ gifts[1].isGiven = TRUE
    /\ Received(UserOid(1), "GIFT_GIVEN", 1) = 1
    /\ sweep[1].pc = "ack"

(* Overlapping callbacks and rejected store calls *)

LifecycleTypes == {"EVENT_STARTING_SOON", "EVENT_COMPLETED", "EVENT_GIFTERS_REVEALED"}

\* C22: also when two sweeps overlap, the owner of an event holds at most one
\* notification of each of the three lifecycle types about it.
C22_OverlapAtMostOnce ==
    \A e \in DOMAIN events : \A type \in LifecycleTypes : OwnerReceived(e, type) <= 1

\* C23: a rejected store call on one event does not keep the callback from
\* the events that remain: the callback ends only from its third pass, with
\* no event of any pass left but the one it ends on.
C23_FailureIsolated ==
    [][\A w \in Sweeper :
          (sweep[w].pc # "idle" /\ sweep'[w].pc = "idle")
          => /\ sweep[w].pc \in {"find", "reveal"}
             /\ sweep[w].starting = <<>> /\ sweep[w].events = <<>>
             /\ Len(sweep[w].ended) <= 1]_vars

(* The notification service never fails its caller *)

\* the documents of a collection of notifications that lack a required field
Incomplete(ns) ==
    {n \in BagToSet(ns) :
        \/ n.recipient = Null \/ n.type = "" \/ n.message = ""
        \/ n.entityId = Null \/ n.entityModel = ""}

\* a step of a caller made while the store rejects keeps the caller's change
\* and its answer
CallerKeeps ==
    /\ \A r \in Req :
        /\ (reqs[r].op = "reserve" /\ reqs[r].pc = "save" /\ reqs'[r].pc = "done")
           => /\ reqs'[r].resp = 200
              /\ gifts'[reqs[r].gift].isReserved = ~reqs[r].snap.isReserved
        /\ (reqs[r].op = "send" /\ reqs[r].pc = "save" /\ reqs'[r].pc = "done")
           => /\ reqs'[r].resp = 201
              /\ \E x \in DOMAIN friendRequests' \ DOMAIN friendRequests :
                    /\ friendRequests'[x].requester = UserOid(reqs[r].actor)
                    /\ friendRequests'[x].recipient = UserOid(reqs[r].target)
        /\ (reqs[r].op = "contribute" /\ reqs[r].pc \in {"opened", "threshold"}
                /\ reqs'[r] # reqs[r])
           => /\ donors' = donors /\ donations' = donations /\ gifts' = gifts
              /\ reqs[r].donor \in DOMAIN donors
              /\ reqs[r].saved \in DOMAIN donations
    /\ \A w \in Sweeper :
        /\ (sweep[w].pc = "gift" /\ sweep'[w] # sweep[w])
           => /\ gifts'[Head(sweep[w].gifts).gift].isGiven = TRUE
              /\ sweep'[w].pc \in {"gift", "ack"}
        /\ (sweep[w].pc = "reveal" /\ sweep'[w] # sweep[w]
                /\ FindUser(events[Head(sweep[w].ended)].owner) # Null
                /\ events[Head(sweep[w].ended)].gifts # {})
           => events'[Head(sweep[w].ended)].giftersRevealedAt # Null

\* C25: createNotification creates no document when a required argument is
\* missing or when the save rejects, and the caller goes on as if it had
\* succeeded: its answer and its state change are those of a successful call.
C25_NotificationNeverFailsCaller ==
    [][/\ Incomplete(notifications') = {}
       /\ (notificationSaveFails /\ notificationSaveFails')
          => notifications' = notifications /\ CallerKeeps]_vars

\* user 2 reserved gift 1 while the store rejected: answer 200, the gift
\* reserved, no GIFT_RESERVED for user 1
C25_Witness ==
    /\ notificationSaveFails
    /\ \E r \in Req : /\ reqs[r].op = "reserve" /\ reqs[r].pc = "done"
                      /\ reqs[r].resp = 200 /\ reqs[r].sent = 0
    /\ gifts[1].isReserved = TRUE /\ gifts[1].reservedBy = 2
    /\ Received(UserOid(1), "GIFT_RESERVED", 1) = 0

(* Reading notifications *)

\* the request that the step answers, if the step is a request of kind op
Answers(r, op) == reqs'[r] # reqs[r] /\ reqs'[r].op = op /\ reqs'[r].pc = "done"

\* the notifications of the store, before or after the step
AllNotes == BagToSet(notifications) \cup BagToSet(notifications')

\* the unread notifications of user u before the step
UnreadOf(u) == {n \in BagToSet(notifications) : n.recipient = u /\ n.isRead = FALSE}

\* C26: isRead changes only at the hand of the recipient: a mark-read by
\* anyone else fails and changes nothing, a mark-read by the recipient sets
\* isRead on that notification alone, and mark-all-read by a user sets it on
\* exactly that user's unread notifications.
C26_OnlyRecipientMarksRead ==
    [][\A r \in Req :
         /\ Answers(r, "markRead")
            => LET n == reqs'[r].note
                   mine == /\ n \in BagToSet(notifications)
                           /\ reqs'[r].actor \in Registered
                           /\ n.recipient = UserOid(reqs'[r].actor)
               IN IF mine
                  THEN /\ reqs'[r].resp = 200
                       /\ CopiesIn([n EXCEPT !.isRead = TRUE], notifications') >= 1
                       /\ \A m \in AllNotes \ {n, [n EXCEPT !.isRead = TRUE]} :
                            CopiesIn(m, notifications') = CopiesIn(m, notifications)
                  ELSE reqs'[r].resp >= 400 /\ notifications' = notifications
         /\ Answers(r, "readAll")
            => LET u == UserOid(reqs'[r].actor)
               IN IF reqs'[r].actor \in Registered
                  THEN /\ reqs'[r].resp = 200
                       /\ \A m \in AllNotes :
                            CopiesIn(m, notifications') =
                              IF m.recipient # u THEN CopiesIn(m, notifications)
                              ELSE IF m.isRead = FALSE THEN 0
                              ELSE CopiesIn(m, notifications)
                                   + CopiesIn([m EXCEPT !.isRead = FALSE], notifications)
                  ELSE reqs'[r].resp >= 400 /\ notifications' = notifications
         /\ Answers(r, "list") => notifications' = notifications]_vars

\* the second request was user 1's mark-all-read: both notifications of
\* user 1 are read and the one of user 2 is not
C26_Witness ==
    /\ reqs[1].op = "readAll" /\ reqs[1].actor = 1 /\ reqs[1].resp = 200
    /\ served = 2
    /\ \A n \in BagToSet(notifications) :
            /\ n.recipient = UserOid(1) => n.isRead = TRUE
            /\ n.recipient = UserOid(2) => n.isRead = FALSE

\* C27: every notification listed for a recipient carries a defined message:
\* the stored localized variant for the recipient's language if there is one,
\* else the default message; for every language, en included.
C27_ListedMessageDefined ==
    \A r \in Req :
        (reqs[r].op = "list" /\ reqs[r].pc = "done" /\ reqs[r].resp = 200)
        => \A item \in reqs[r].listed :
              /\ item.message # Undefined
              /\ item.message =
                   LocalizedOrDefault(item.note,
                        UserLanguage(UserOid(reqs[r].actor)))

(* Visibility *)

\* the read requests that have been answered
Answered(ops) == {r \in Req : reqs[r].op \in ops /\ reqs[r].pc = "done"}

\* the record a get-by-id request asked for, or <<>>
Asked(r) ==
    IF reqs[r].op = "getGift" THEN FindById(gifts, reqs[r].gift)
    ELSE IF reqs[r].op = "getEvent" THEN FindById(events, reqs[r].target)
    ELSE IF FindUser(reqs[r].target) = Null THEN <<>>
    ELSE [owner |-> reqs[r].target, viewers |-> userViewers[FindUser(reqs[r].target)]]

\* the requester of r is the owner of the record, in its viewers or, for an
\* event, one of its members
Allowed(r) ==
    \/ Asked(r).owner = reqs[r].actor
    \/ /\ reqs[r].actor \in Registered
       /\ \/ UserOid(reqs[r].actor) \in Asked(r).viewers
          \/ reqs[r].op = "getEvent" /\ UserOid(reqs[r].actor) \in Asked(r).members

\* the answer of the endpoint of r for an id of no record
NotFoundAnswer(r) ==
    IF reqs[r].op = "getGift" THEN GiftNotFound
    ELSE IF reqs[r].op = "getEvent" THEN EventNotFound ELSE UserNotFound

\* C28: get-by-id returns a record without viewers to every requester, and a
\* record with viewers to its owner, to each of its viewers and, for an
\* event, to each of its members.
C28_VisibleIsReturned ==
    \A r \in Answered({"getGift", "getEvent", "getUser"}) :
        (Asked(r) # <<>> /\ (Asked(r).viewers = {} \/ Allowed(r)))
        => reqs[r].resp = 200 /\ reqs[r].body.docs # {}

\* C29: no read endpoint sends a gift that has viewers to a requester who is
\* neither its owner nor one of its viewers.
C29_PrivateGiftNotSent ==
    \A r \in Req :
        reqs[r].pc = "done"
        => \A g \in reqs[r].body.gifts :
              gifts[g].viewers # {}
              => \/ gifts[g].owner = reqs[r].actor
                 \/ /\ reqs[r].actor \in Registered
                    /\ UserOid(reqs[r].actor) \in gifts[g].viewers

\* C30: the answer of get-by-id for a record the requester may not see is
\* the answer for an id of no record: the same status and the same body.
C30_HiddenLooksAbsent ==
    \A r \in Answered({"getGift", "getEvent", "getUser"}) :
        (Asked(r) # <<>> /\ Asked(r).viewers # {} /\ ~Allowed(r))
        => /\ reqs[r].resp = NotFoundAnswer(r).resp
           /\ reqs[r].body = [NoBody EXCEPT !.message = NotFoundAnswer(r).message]

(* Writes to records the actor cannot see *)

\* the record a join, reserve or contribute request names, or <<>>
Named(q) ==
    IF q.op = "join" THEN FindById(events, q.target) ELSE FindById(gifts, q.gift)

\* the actor of q is neither the owner of the record q names nor in its
\* viewers nor, for an event, one of its members
HiddenFrom(q) ==
    /\ Named(q) # <<>>
    /\ Named(q).viewers # {}
    /\ Named(q).owner # q.actor
    /\ q.actor \in Registered
        => /\ UserOid(q.actor) \notin Named(q).viewers
           /\ q.op = "join" => UserOid(q.actor) \notin Named(q).members

\* C31: a join, reserve or contribute request on an event or gift its actor
\* cannot see changes neither the event's members nor the gift, and is
\* answered 404.
C31_HiddenRecordNotMutated ==
    [][\A r \in Req :
        (/\ reqs'[r] # reqs[r]
         /\ reqs'[r].op \in {"join", "reserve", "contribute"}
         /\ HiddenFrom(reqs'[r]))
        => /\ events' = events
           /\ gifts' = gifts
           /\ reqs'[r].pc = "done" => reqs'[r].resp = 404]_vars

(* Anonymity of the givers *)

\* users 2 and 3 exchanged, by telegramId and by _id
Exchanged(t) ==
    IF t = 2 THEN 3 ELSE IF t = 3 THEN 2
    ELSE IF t = UserOid(2) THEN UserOid(3) ELSE IF t = UserOid(3) THEN UserOid(2) ELSE t

\* the gifts as they are when user 3 reserved what user 2 did, and user 2
\* what user 3 did
GiftsExchanged == [g \in DOMAIN gifts |-> [gifts[g] EXCEPT !.reservedBy = Exchanged(@)]]

\* the notifications held for user t, each with its number of copies; and
\* the same when users 2 and 3 are exchanged as senders
Inbox(t) ==
    {<<n, CopiesIn(n, notifications)>> :
        n \in {m \in BagToSet(notifications) : m.recipient = UserOid(t)}}
InboxExchanged(t) ==
    {<<[n EXCEPT !.sender = Exchanged(@)], CopiesIn(n, notifications)>> :
        n \in {m \in BagToSet(notifications) : m.recipient = UserOid(t)}}

\* C32: while an event is anonymous and not revealed, the event detail
\* answered to its owner and the notifications held for its owner are the
\* same as in the state where another user made the reservations.
C32_OwnerCannotTellReserver ==
    [][\A e \in DOMAIN events :
        (events[e].isAnonymous /\ events[e].giftersRevealedAt = Null)
        => /\ Inbox(events[e].owner) = InboxExchanged(events[e].owner)
           /\ \A r \in Req :
                (/\ reqs'[r] # reqs[r]
                 /\ reqs'[r].op = "getEvent" /\ reqs'[r].target = e
                 /\ reqs'[r].actor = events[e].owner /\ reqs'[r].resp = 200)
                => reqs'[r].body.detail =
                        EventResponseGifts(GiftsExchanged, events[e], events[e].owner)]_vars

(* Events without gifts at the reveal *)

\* the callback is about to pass over event e, which it read without gifts
Skipping(e) ==
    /\ sweep[1].pc = "reveal"
    /\ Head(sweep[1].ended) = e
    /\ sweep[1].found[e].gifts = {}

\* the gifters of event e are not revealed and its owner was not told so
Unrevealed(e) ==
    /\ events[e].giftersRevealedAt = Null
    /\ OwnerReceived(e, "EVENT_GIFTERS_REVEALED") = 0

\* C33: an anonymous event that a sweep of its window passes over for having
\* no gifts is never revealed afterwards, whatever gifts are added and
\* whatever sweeps follow.
C33_SkippedNeverRevealed ==
    \A e \in DOMAIN events : e \in sweep[1].skipped => Unrevealed(e)

\* C33, amended: the sweep that reads an unrevealed anonymous event without
\* gifts passes over it and leaves it unrevealed; and once the last minute
\* of its window is over, an unrevealed event stays unrevealed whatever
\* gifts are added and whatever sweeps follow.
C33_SkippedThenWindowOver ==
    [][\A e \in DOMAIN RevealEvents :
        (events[e].isAnonymous /\ events[e].endDate # Null /\ Unrevealed(e))
        => /\ (Skipping(e) /\ sweep'[1] # sweep[1]) => Unrevealed(e)'
           /\ now > events[e].endDate + Day + 1 => Unrevealed(e)']_vars

\* the window of event 4 is over, it was never revealed, and user 2 has
\* since added gift 2 to it, which the sweep of minute 2 has left as it is
C33_Witness ==
    /\ now = 2 /\ sweep[1].pc = "idle"
    /\ events[4].gifts = {2}
    /\ Unrevealed(4)
    /\ \E r \in Req : reqs[r].op = "addGift" /\ reqs[r].target = 4 /\ reqs[r].resp = 200

(* The owner's mark-given toggle *)

\* the step is the save of the mark-given request r
MarkGivenSaves(r) ==
    reqs[r].op = "markGiven" /\ reqs[r].pc = "save" /\ reqs'[r].pc = "done"

\* C34: the mark-given toggle of a gift from not given to given sends one
\* GIFT_GIVEN to the owner with the reserver as sender; the toggle from
\* given to not given sends nothing and leaves the gift available: not
\* given, not reserved, without reserver.
C34_MarkGivenToggle ==
    [][\A r \in Req :
        MarkGivenSaves(r)
        => LET g == reqs[r].gift
           IN /\ (gifts[g].isGiven = FALSE /\ gifts'[g].isGiven = TRUE)
                 => notifications' = notifications (+)
                        SetToBag({GiftGivenNote(g, gifts[g].reservedBy, gifts[g].owner)})
              /\ (gifts[g].isGiven = TRUE /\ gifts'[g].isGiven = FALSE)
                 => /\ notifications' = notifications
                    /\ gifts'[g].isReserved = FALSE
                    /\ gifts'[g].reservedBy = Null]_vars

(* Acknowledgements *)

\* the EVENT_THANK_YOU of the owner of event e to member m
ThankYouNote(e, m) ==
    [recipient |-> m, sender |-> UserOid(events[e].owner), type |-> "EVENT_THANK_YOU",
     message |-> "thanked you", entityId |-> e, entityModel |-> "Event", isRead |-> FALSE]

\* C35: the sweep that completes an event sends EVENT_THANK_YOU to each of
\* its members when sendAcknowledgements is set and to nobody when it is
\* not, and over all sweeps no member holds more than one EVENT_THANK_YOU
\* about one event.
C35_ThankYouOncePerMember ==
    [][/\ \A w \in Sweeper :
            (sweep[w].pc = "ack" /\ sweep'[w] # sweep[w])
            => LET e == Head(sweep[w].events)
               IN notifications' = notifications (+)
                    SetToBag({ThankYouNote(e, m) :
                                m \in IF events[e].sendAcknowledgements = TRUE
                                      THEN events[e].members ELSE {}})
       /\ \A e \in DOMAIN events : \A m \in events[e].members :
            CopiesIn(ThankYouNote(e, m), notifications') <= 1]_vars

(* The friends relation *)

\* C36: when no request is in flight, B is in A.friends iff A is in
\* B.friends.
C36_FriendsSymmetric ==
    Quiescent => \A a, b \in Users : (b \in friends[a]) <=> (a \in friends[b])

\* C37: a user enters the friends of another only by the step of a respond
\* request that accepts a friend request between the two; nobody enters
\* their own friends.
C37_FriendsOnlyByAcceptance ==
    [][\A a, b \in Users :
        (b \in friends'[a] /\ b \notin friends[a])
        => /\ a # b
           /\ \E r \in Req :
                /\ reqs[r].op = "respond" /\ reqs[r].action = "accept"
                /\ {reqs[r].snap.requester, reqs[r].snap.recipient} = {a, b}]_vars

\* C38: when no request is in flight, no user is both in the blocked and in
\* the friends of another.
C38_BlockedNotFriend ==
    Quiescent => \A u \in Users : blocked[u] \cap friends[u] = {}

====
